---- MODULE Spec2Model ----
(***************************************************************************)
(* Rule scheduler and cross-process coordination layer of SafeFamily       *)
(* (src/safe_family/rules/scheduler.py).                                    *)
(*                                                                         *)
(* Several server processes share one PostgreSQL store.  Each process runs *)
(* a trigger engine whose callbacks are wrapped by _wrap_job: the wrapper  *)
(* asks _ensure_scheduler_leader, then _ensure_job_lock, then runs the job *)
(* body.  Both locks are session-scoped advisory locks: a lock lives as    *)
(* long as the backend session of the connection that took it.             *)
(*                                                                         *)
(* A connection object held by a process is modelled by the state of its   *)
(* backend session as far as the locks are concerned:                      *)
(*   "none"   no connection object (None / key absent from the dict)       *)
(*   "lock"   session alive and holding the advisory lock it asked for     *)
(*   "nolock" session alive, the lock was not granted to it                *)
(*   "dead"   session terminated on the backend; the client object has not *)
(*            been closed, so its attribute closed is still 0              *)
(***************************************************************************)
EXTENDS Integers, FiniteSets, Sequences, TLC

\* ---- bounds of the model ----
NumProcs == 2
MaxCalls == 2
MaxRuleId == 2
MaxFaults == 1
MaxRuns == 2
MaxPending == 2
MaxCrashes == 2
MaxDay == 2
MaxTime == 1
MaxTaskId == 2
MaxInvocations == 3
MaxGoalId == 2
MaxWall == 9
MaxSweeps == 2
MaxUser == 2
MaxOpId == 2
MaxStamp == 2
MaxOffset == 1
MaxBatch == 2
MaxNoteId == 1
MaxRequests == 2
MaxMonotonic == 31

Procs == 1..NumProcs
Threads == 1..MaxCalls
RuleIds == 1..MaxRuleId

\* ---- program constants ----
RULE_FUNCTIONS ==
    { "Rule enable all except AI", "Rule disable all", "Rule enable AI",
      "Rule disable AI", "Rule stop traffic all", "Rule allow traffic all",
      "Rule auto commit" }

\* rule names the admin form may submit: one registered, one not
RuleNameInputs == { "Rule disable all", "Rule not registered" }

BuiltinJobs ==
    { "archive_completed_tasks", "analyze_logs",
      "notify_overdue_task_feedback", "run_adguard_pull" }

RuleJobId(rule_id) == "rule_" \o ToString(rule_id)

\* an id of a row of schedule_rules whose job id has the lock key of rule_1:
\* zlib.crc32(b"rule_816502988") = zlib.crc32(b"rule_1") = 2500551175
CollidingRuleId == 816502988

AllJobIds ==
    { RuleJobId(r) : r \in RuleIds \cup { CollidingRuleId } } \cup BuiltinJobs

\* zlib.crc32 of the key strings, as <<high 16 bits, low 16 bits>>
Crc32 ==
    [ s \in { "safe_family_scheduler_leader", "rule_1", "rule_2", "rule_3",
              "rule_4", "rule_816502988", "archive_completed_tasks", "analyze_logs",
              "notify_overdue_task_feedback", "run_adguard_pull" } |->
        CASE s = "safe_family_scheduler_leader" -> <<45860, 46498>>
          [] s = "rule_1" -> <<38155, 25095>>
          [] s = "rule_2" -> <<3074, 13245>>
          [] s = "rule_3" -> <<31493, 811>>
          [] s = "rule_4" -> <<58721, 38536>>
          [] s = "rule_816502988" -> <<38155, 25095>>
          [] s = "archive_completed_tasks" -> <<39617, 34410>>
          [] s = "analyze_logs" -> <<34372, 40101>>
          [] s = "notify_overdue_task_feedback" -> <<7033, 29191>>
          [] s = "run_adguard_pull" -> <<51254, 43557>> ]

_SCHEDULER_LEADER_LOCK_KEY == Crc32["safe_family_scheduler_leader"]

_job_lock_key(job_id) == Crc32[job_id]

_JOB_SKIPPED == "SKIPPED"

NoConn == "none"
LiveConns == { "lock", "nolock" }
ConnStates == { NoConn, "lock", "nolock", "dead" }

VARIABLES
    dbUp,        \* the PostgreSQL store accepts connections
    rules,       \* table schedule_rules: id -> [rule_name, enabled]
    nextId,      \* next value of the serial column schedule_rules.id
    jobs,        \* per process: ids of the jobs registered with the engine
    _IS_SCHEDULER_LEADER,    \* per process: _IS_SCHEDULER_LEADER
    _SCHEDULER_LEADER_CONN,  \* per process: _SCHEDULER_LEADER_CONN
    _JOB_LOCKS,    \* per process: _JOB_LOCKS, job id -> connection
    thr,         \* per process and engine thread: the wrapped call in flight
    faults,      \* number of connection losses and outages so far
    runs,        \* history, per process: the load_schedules calls it has
                 \* completed since the rule table last changed
    loadedJobs,  \* history, per process: the job ids registered when its
                 \* last complete load_schedules returned
    user_rule_assignment,  \* table user_rule_assignment of the one user
    chan,        \* per process: the notifications the backend has sent to
                 \* the session of its listener, not yet read by conn.poll()
    notifies,    \* per process: conn.notifies of its listener
    lpc,         \* per process: where its listener thread stands
    listening,   \* per process: the session of its listener is alive and
                 \* has executed LISTEN
    _LISTENER_STOP,  \* per process: _LISTENER_STOP is set
    due,         \* history, per process: the notifications its listener has
                 \* still to take until it has taken the one of the last
                 \* change of the rule table; -1 if that one never
                 \* reached it or was lost
    crashes,     \* history, per process: how many times _listen_once has
                 \* raised in its listener thread
    clock,       \* the local date and time of day
    todo_list,   \* table todo_list: per task id its date, the end of its
                 \* time_slot and its completion_status
    _NOTIFIED_DATE,      \* of one process: the date of the notified set
    _NOTIFIED_TASK_IDS,  \* of one process: the task ids alerted on that date
    npc,         \* where the invocation of notify_overdue_task_feedback
                 \* stands
    today,       \* local variable today of the invocation
    rows,        \* local variable rows of the invocation: the ids fetched
    alerts,      \* per task id and date: the calls of send_hammerspoon_alert
                 \* made for the task by the invocations of that date
    invocations, \* history, per date: the invocations of that date that
                 \* have returned
    wall,        \* datetime.now(local_tz), in ticks
    long_term_goals,      \* table long_term_goals, per goal_id
    long_term_goals_his,  \* table long_term_goals_his: the rows inserted
    sweeps,      \* the runs of archive_completed_tasks so far
    failing,     \* of the last run: the goal ids whose INSERT and whose
                 \* DELETE the store refused
    added,       \* per process: the job ids in the order of the add_job
                 \* calls since the last remove_all_jobs seen
    stmtFails,   \* the store accepts connections and fails the statements
                 \* sent to it
    last,        \* history: the last call of a lock function, the process
                 \* that made it and what it did with the store
    notes,       \* table notes, per note id, as committed
    note_sync_ops,  \* table note_sync_ops, as committed: the pairs of
                 \* user_id and op_id
    db_session,  \* db.session of the request in flight: the two tables with
                 \* its pending changes
    req,         \* the user whose notesync request is in flight, 0 if none
    results,     \* local variable results of apply_sync_ops: the result of
                 \* each op gone through
    _LOAD_SCHEDULES_LOCK,  \* per process: the thread that holds
                 \* _LOAD_SCHEDULES_LOCK, NoCaller if it is free
    rl,          \* per process and thread that calls load_schedules: where
                 \* the call stands, its local active_job_ids and the rows
                 \* its SELECT has fetched
    timers,      \* per process: the jobs of the engine, each with its id and
                 \* the callable it was added with
    raised,      \* history, per process: the job ids whose body has raised
                 \* in a call of this process
    stoppedAt,   \* history, per process: where its listener thread stood
                 \* when _LISTENER_STOP was set, "none" while it is clear
    standby,     \* _NOTIFIED_DATE and _NOTIFIED_TASK_IDS of the process that
                 \* is not the one running notify_overdue_task_feedback
    RULE_EXEC_LOCK,   \* of one process: RULE_EXEC_LOCK is held
    RULE_EXEC_STATE,  \* of that process: RULE_EXEC_STATE
    monotonic,   \* time_module.monotonic(), in seconds
    handler      \* per request thread of that process: where its call of
                 \* exec_rules stands, its local rule_name and what the
                 \* last call it has finished answered

lockVars ==
    << dbUp, rules, nextId, jobs, _IS_SCHEDULER_LEADER, _SCHEDULER_LEADER_CONN, _JOB_LOCKS, thr,
       faults >>

history == << runs, loadedJobs >>

listenVars == << notifies, lpc, listening, _LISTENER_STOP, crashes >>

notifyVars ==
    << clock, todo_list, _NOTIFIED_DATE, _NOTIFIED_TASK_IDS, npc, today, rows, alerts,
       invocations >>

archiveVars == << wall, long_term_goals, long_term_goals_his, sweeps, failing >>

\* the state of the job bodies
leaseVars == << stmtFails, last >>

\* the state outside the scheduler and its job bodies
noteVars == << notes, note_sync_ops, db_session, req, results >>

\* load_schedules step by step
mutexVars == << _LOAD_SCHEDULES_LOCK, rl, timers >>

\* exec_rules
execVars == << RULE_EXEC_LOCK, RULE_EXEC_STATE, monotonic, handler >>

moreVars == << mutexVars, raised, stoppedAt, standby, execVars >>

otherVars == << leaseVars, noteVars, moreVars >>

bodyVars == << notifyVars, archiveVars, added, otherVars >>

vars ==
    << lockVars, history, user_rule_assignment, chan, listenVars, due, bodyVars >>

Idle ==
    [ pc |-> "idle", job |-> "none", leader |-> "none", lock |-> "none",
      fn |-> "none", ret |-> "none" ]

\* ---- the advisory-lock backend ----

\* some live session holds the advisory lock with this key
KeyLocked(key) ==
    \E p \in Procs :
        \/ _SCHEDULER_LEADER_CONN[p] = "lock" /\ _SCHEDULER_LEADER_LOCK_KEY = key
        \/ \E j \in AllJobIds : _JOB_LOCKS[p][j] = "lock" /\ _job_lock_key(j) = key

\* as PgTryAdvisoryLock, with the queueing pg_advisory_lock: the statement
\* does not return while another session holds the key
PgAdvisoryLockWaits(key) == IF KeyLocked(key) THEN "wait" ELSE "lock"

\* SELECT pg_try_advisory_lock(key) on a fresh connection: the session the
\* statement leaves behind
PgTryAdvisoryLock(key) == IF KeyLocked(key) THEN "nolock" ELSE "lock"

\* cur.fetchone() after the statement: the call goes on once the statement
\* has returned
Returned(session) == session # "wait"

\* ---- what a call does with the store ----

\* of one call of a lock function: get_db_connection returned a connection
\* (opened), the lock statement was sent on it (asked), the call closed the
\* connection it opened (shut), the call raised (raised)
NoIo == [ opened |-> FALSE, asked |-> FALSE, shut |-> FALSE, raised |-> FALSE ]

\* get_db_connection raised: conn is None in the except clause
ConnectRaised == NoIo

\* cur.execute raised: the except clause closes the connection
ExecuteRaised == [ opened |-> TRUE, asked |-> TRUE, shut |-> TRUE, raised |-> FALSE ]

\* not locked: conn.close()
Refused == [ opened |-> TRUE, asked |-> TRUE, shut |-> TRUE, raised |-> FALSE ]

\* locked: the connection is stored
Retained == [ opened |-> TRUE, asked |-> TRUE, shut |-> FALSE, raised |-> FALSE ]

\* ---- leader election ----

\* as LeaderTryAcquire, without the test of `locked`
LeaderTryAcquireUnchecked(leader, held) ==
    IF ~dbUp
    THEN [ ret |-> FALSE, leader |-> leader, conn |-> held, io |-> ConnectRaised ]
    ELSE IF stmtFails
    THEN [ ret |-> FALSE, leader |-> leader, conn |-> held, io |-> ExecuteRaised ]
    ELSE [ ret |-> TRUE, leader |-> TRUE,
           conn |-> PgTryAdvisoryLock(_SCHEDULER_LEADER_LOCK_KEY), io |-> Retained ]

\* as LeaderTryAcquire, without the conn.close() of `if not locked`
LeaderTryAcquireLeaks(leader, held) ==
    IF ~dbUp
    THEN [ ret |-> FALSE, leader |-> leader, conn |-> held, io |-> ConnectRaised ]
    ELSE IF stmtFails
    THEN [ ret |-> FALSE, leader |-> leader, conn |-> held, io |-> ExecuteRaised ]
    ELSE LET conn == PgTryAdvisoryLock(_SCHEDULER_LEADER_LOCK_KEY)
             locked == (conn = "lock")
         IN  IF ~locked
             THEN [ ret |-> FALSE, leader |-> leader, conn |-> held, io |-> Retained ]
             ELSE [ ret |-> TRUE, leader |-> TRUE, conn |-> conn, io |-> Retained ]

\* _ensure_scheduler_leader, the try-acquire on a fresh connection: the value
\* returned and the module state left, from the flags (leader, held)
LeaderTryAcquire(leader, held) ==
    IF ~dbUp
    THEN [ ret |-> FALSE, leader |-> leader, conn |-> held, io |-> ConnectRaised ]
    ELSE IF stmtFails
    THEN [ ret |-> FALSE, leader |-> leader, conn |-> held, io |-> ExecuteRaised ]
    ELSE LET conn == PgTryAdvisoryLock(_SCHEDULER_LEADER_LOCK_KEY)
             locked == (conn = "lock")
         IN  IF ~locked
             THEN [ ret |-> FALSE, leader |-> leader, conn |-> held, io |-> Refused ]
             ELSE [ ret |-> TRUE, leader |-> TRUE, conn |-> conn, io |-> Retained ]

\* as _ensure_scheduler_leader, taking the cached connection for alive
\* without the SELECT 1
EnsureLeaderUnprobed(p) ==
    IF _IS_SCHEDULER_LEADER[p] /\ _SCHEDULER_LEADER_CONN[p] # NoConn
    THEN [ ret |-> TRUE, leader |-> _IS_SCHEDULER_LEADER[p], conn |-> _SCHEDULER_LEADER_CONN[p],
           io |-> NoIo ]
    ELSE LeaderTryAcquire(_IS_SCHEDULER_LEADER[p], _SCHEDULER_LEADER_CONN[p])

\* _ensure_scheduler_leader: probe the cached connection with SELECT 1, drop
\* it when the probe raises, then try to acquire
_ensure_scheduler_leader(p) ==
    IF _IS_SCHEDULER_LEADER[p] /\ _SCHEDULER_LEADER_CONN[p] # NoConn
    THEN IF _SCHEDULER_LEADER_CONN[p] \in LiveConns
         THEN [ ret |-> TRUE, leader |-> _IS_SCHEDULER_LEADER[p], conn |-> _SCHEDULER_LEADER_CONN[p],
                io |-> NoIo ]
         ELSE LeaderTryAcquire(FALSE, NoConn)
    ELSE LeaderTryAcquire(_IS_SCHEDULER_LEADER[p], _SCHEDULER_LEADER_CONN[p])

\* the backend statement of _ensure_scheduler_leader, if it makes one, returns
LeaderCallReturns(p) ==
    \/ _IS_SCHEDULER_LEADER[p] /\ _SCHEDULER_LEADER_CONN[p] \in LiveConns
    \/ ~dbUp
    \/ Returned(PgTryAdvisoryLock(_SCHEDULER_LEADER_LOCK_KEY))

\* as _release_scheduler_leader, without the try around close(): the
\* exception leaves the function before the two assignments
ReleaseCloseUnguarded(p, close_raises) ==
    IF _SCHEDULER_LEADER_CONN[p] # NoConn /\ close_raises
    THEN [ leader |-> _IS_SCHEDULER_LEADER[p], conn |-> _SCHEDULER_LEADER_CONN[p],
           io |-> [ NoIo EXCEPT !.raised = TRUE ] ]
    ELSE [ leader |-> FALSE, conn |-> NoConn, io |-> NoIo ]

\* _release_scheduler_leader: close the connection if there is one, an
\* exception of close() being logged, then forget it; the connection object
\* is dropped in either case, and with it the backend session
_release_scheduler_leader(p, close_raises) ==
    [ leader |-> FALSE, conn |-> NoConn, io |-> NoIo ]

\* ---- per-job lock ----

\* the backend statement of _ensure_job_lock returns
JobLockCallReturns(job_id) ==
    ~dbUp \/ Returned(PgTryAdvisoryLock(_job_lock_key(job_id)))

\* as JobLockCached, never answering from the cache
NeverCached(p, job_id) == FALSE

\* _ensure_job_lock, first part: the cached connection is there and not closed
JobLockCached(p, job_id) == _JOB_LOCKS[p][job_id] # NoConn

\* as _ensure_job_lock, without the test of `locked`
EnsureJobLockUnchecked(p, job_id) ==
    IF ~dbUp
    THEN [ ret |-> FALSE, conn |-> _JOB_LOCKS[p][job_id], io |-> ConnectRaised ]
    ELSE IF stmtFails
    THEN [ ret |-> FALSE, conn |-> _JOB_LOCKS[p][job_id], io |-> ExecuteRaised ]
    ELSE [ ret |-> TRUE, conn |-> PgTryAdvisoryLock(_job_lock_key(job_id)),
           io |-> Retained ]

\* _ensure_job_lock, second part: the value returned and the cache entry left
_ensure_job_lock(p, job_id) ==
    IF ~dbUp
    THEN [ ret |-> FALSE, conn |-> _JOB_LOCKS[p][job_id], io |-> ConnectRaised ]
    ELSE IF stmtFails
    THEN [ ret |-> FALSE, conn |-> _JOB_LOCKS[p][job_id], io |-> ExecuteRaised ]
    ELSE LET conn == PgTryAdvisoryLock(_job_lock_key(job_id))
             locked == (conn = "lock")
         IN  IF ~locked
             THEN [ ret |-> FALSE, conn |-> _JOB_LOCKS[p][job_id], io |-> Refused ]
             ELSE [ ret |-> TRUE, conn |-> conn, io |-> Retained ]

\* _release_unused_job_locks: the cache of process p afterwards
_release_unused_job_locks(p, active_job_ids) ==
    [ j \in AllJobIds |->
        IF j \in active_job_ids THEN _JOB_LOCKS[p][j] ELSE NoConn ]

\* ---- the wrapper ----

\* as WrapAfterLeader, going on to the job lock whatever the answer
WrapIgnoresLeader(is_leader) == "job_lock"

\* as WrapAfterJobLock, running the body whatever the answer
WrapIgnoresJobLock(has_lock) == "running"

\* _wrap_job, after _ensure_scheduler_leader returned
WrapAfterLeader(is_leader) == IF ~is_leader THEN "returned" ELSE "job_lock"

\* _wrap_job, after _ensure_job_lock returned
WrapAfterJobLock(has_lock) == IF ~has_lock THEN "returned" ELSE "running"

\* ---- Reload ----

\* as RemoveAllJobs, leaving the jobs in place
KeepAllJobs(registered) == registered

\* as EnabledRules, without the WHERE clause
AllRules(table) == DOMAIN table

\* scheduler.remove_all_jobs()
RemoveAllJobs(registered) == {}

\* the rows of SELECT ... FROM schedule_rules WHERE enabled = TRUE
EnabledRules(table) == { r \in DOMAIN table : table[r].enabled }

\* as RuleJobIds, without the look in RULE_FUNCTIONS
RuleJobIdsAnyName(table) == { RuleJobId(r) : r \in EnabledRules(table) }

\* the rule loop of load_schedules: ids of the jobs it adds
RuleJobIds(table) ==
    { RuleJobId(r) : r \in { e \in EnabledRules(table) :
                               table[e].rule_name \in RULE_FUNCTIONS } }

\* load_schedules: the jobs registered when it returns
LoadedJobs(registered, table) ==
    RemoveAllJobs(registered) \cup RuleJobIds(table) \cup
    { "archive_completed_tasks", "analyze_logs",
      "notify_overdue_task_feedback", "run_adguard_pull" }

\* load_schedules: the set active_job_ids it passes on
ActiveJobIds(table) ==
    RuleJobIds(table) \cup
    { "archive_completed_tasks", "analyze_logs", "run_adguard_pull" }

\* remove_job
remove_job(registered, rule_id) == registered \ { RuleJobId(rule_id) }

\* load_schedules of process p against the rule table `table`, the engine
\* holding the jobs `registered`
load_schedules(p, registered, table) ==
    /\ jobs' = [jobs EXCEPT ![p] = LoadedJobs(registered, table)]
    /\ _JOB_LOCKS' =
         [_JOB_LOCKS EXCEPT ![p] = _release_unused_job_locks(p, ActiveJobIds(table))]

\* ---- initial states ----
InitWith(table, next_id, registered) ==
    /\ dbUp = TRUE
    /\ rules = table
    /\ nextId = next_id
    /\ jobs = [ p \in Procs |-> registered ]
    /\ _IS_SCHEDULER_LEADER = [ p \in Procs |-> FALSE ]
    /\ _SCHEDULER_LEADER_CONN = [ p \in Procs |-> NoConn ]
    /\ _JOB_LOCKS = [ p \in Procs |-> [ j \in AllJobIds |-> NoConn ] ]
    /\ thr = [ p \in Procs |-> [ t \in Threads |-> Idle ] ]
    /\ faults = 0
    /\ runs = [ p \in Procs |-> 0 ]
    /\ loadedJobs = [ p \in Procs |-> {} ]
    /\ user_rule_assignment = "none"
    /\ chan = [ p \in Procs |-> << >> ]
    /\ notifies = [ p \in Procs |-> << >> ]
    /\ listening = [ p \in Procs |-> FALSE ]
    /\ _LISTENER_STOP = [ p \in Procs |-> FALSE ]
    /\ due = [ p \in Procs |-> 0 ]
    /\ crashes = [ p \in Procs |-> 0 ]

\* ---- the tables and module state of the job bodies ----

Days == 1..MaxDay
Times == 0..MaxTime
TaskIds == 1..MaxTaskId

\* a time_slot that does not split into two parts of which the second is
\* %H:%M
Unparsable == -1

\* _NOTIFIED_DATE is None
NoDate == 0

\* the rows a todo_list can hold: date, the end of time_slot, and whether
\* completion_status is empty
TodoRows ==
    [ date : Days, end_time : Times \cup { Unparsable }, completion_status : { "", "done" } ]

\* the module state of notify_overdue_task_feedback after import, over the
\* table given
InitNotified(table) ==
    /\ clock = [ day |-> 1, time |-> 0 ]
    /\ todo_list = table
    /\ _NOTIFIED_DATE = NoDate
    /\ _NOTIFIED_TASK_IDS = {}
    /\ npc = "idle"
    /\ today = NoDate
    /\ rows = {}
    /\ alerts = [ t \in TaskIds |-> [ d \in Days |-> 0 ] ]
    /\ invocations = [ d \in Days |-> 0 ]

GoalIds == 1..MaxGoalId

\* the sub-second resolution of datetime: ticks in one second
TicksPerSecond == 2

\* timedelta(days=3), with one day as one second of the model
ThreeDays == 3 * TicksPerSecond

\* completed_at of a goal that is not completed
Null == -1

\* a goal as goals.py creates it: not completed
NewGoal(g) ==
    [ present |-> TRUE, user_id |-> "user", task_text |-> "task", priority |-> 3,
      completed |-> FALSE, completed_at |-> Null, time_spent |-> g ]

\* the tables of archive_completed_tasks before any run
InitArchive ==
    /\ wall = 0
    /\ long_term_goals = [ g \in GoalIds |-> NewGoal(g) ]
    /\ long_term_goals_his = {}
    /\ sweeps = 0
    /\ failing = [ insert |-> {}, delete |-> {} ]

\* no lock function has been called; the store executes statements
InitLease ==
    /\ stmtFails = FALSE
    /\ last = [ fn |-> "none", proc |-> 0, io |-> NoIo ]

\* ---- notesync: the tables and the payloads ----

Users == 1..MaxUser
OpIds == 1..MaxOpId
NoteIds == 1..MaxNoteId

\* a datetime of a payload: the wall-clock reading t and the UTC offset off
\* of its tzinfo, in hours; a payload without offset reads as offset 0
Stamps == [ t : 1..MaxStamp, off : 0..MaxOffset ]

\* the datetime None of a payload
NoStamp == [ t |-> Null, off |-> 0 ]

\* the text and the pin flag a payload carries
Contents == { [ text |-> "a", isPinned |-> FALSE ], [ text |-> "b", isPinned |-> TRUE ] }

\* OperationPayload, with no tags and no media; "upsert" takes the branch
\* of "create" and "update"
Ops ==
    [ opId : OpIds, opType : { "create", "update", "delete" }, id : NoteIds,
      content : Contents, updatedAt : Stamps,
      deletedAt : { NoStamp, [ t |-> MaxStamp, off |-> 0 ] } ]

\* no row: Note.query...first() is None
NoNote ==
    [ present |-> FALSE, user_id |-> 0, text |-> "", is_pinned |-> FALSE,
      updated_at |-> Null, deleted_at |-> Null ]

InitNotes ==
    /\ notes = [ n \in NoteIds |-> NoNote ]
    /\ note_sync_ops = {}
    /\ db_session = [ notes |-> [ n \in NoteIds |-> NoNote ], ops |-> {} ]
    /\ req = 0
    /\ results = << >>

\* ---- load_schedules step by step: the callers and the timers ----

\* the threads of a process that call load_schedules: its change listener
\* and the request threads of schedule_rules
Listener == 0
Requests == 1..MaxRequests
Callers == { Listener } \cup Requests

\* no thread holds the lock
NoCaller == -1

\* as _wrap_job, handing the function itself to add_job
RawBody(job_id, func) == [ wrapper |-> "none", job_id |-> "none", func |-> func ]

\* _wrap_job: the closure _wrapped over job_id and func
_wrap_job(job_id, func) == [ wrapper |-> "_wrapped", job_id |-> job_id, func |-> func ]

\* the rows of the SELECT of load_schedules: id and rule_name
Rows(table) == [ r \in EnabledRules(table) |-> table[r].rule_name ]

\* the rule loop of load_schedules: the add_job calls, id and callable
RuleTimers(fetched) ==
    { [ id |-> RuleJobId(r), callback |-> _wrap_job(RuleJobId(r), fetched[r]) ] :
        r \in { x \in DOMAIN fetched : fetched[x] \in RULE_FUNCTIONS } }

\* the four add_job calls that follow the rule loop
BuiltinTimers ==
    { [ id |-> "archive_completed_tasks",
        callback |-> _wrap_job("archive_completed_tasks", "archive_completed_tasks") ],
      [ id |-> "analyze_logs", callback |-> _wrap_job("analyze_logs", "analyze_logs") ],
      [ id |-> "notify_overdue_task_feedback",
        callback |-> _wrap_job("notify_overdue_task_feedback",
                               "notify_overdue_task_feedback") ],
      [ id |-> "run_adguard_pull",
        callback |-> _wrap_job("run_adguard_pull", "run_adguard_pull") ] }

\* a thread that is not in load_schedules
NotLoading == [ pc |-> "idle", active_job_ids |-> {}, fetched |-> << >> ]

\* no thread is in load_schedules; the engine holds, with their callables,
\* the jobs registered
InitMutex ==
    /\ _LOAD_SCHEDULES_LOCK = [ p \in Procs |-> NoCaller ]
    /\ rl = [ p \in Procs |-> [ c \in Callers |-> NotLoading ] ]
    /\ timers = [ p \in Procs |->
                    { t \in RuleTimers(Rows(rules)) \cup BuiltinTimers : t.id \in jobs[p] } ]

\* the notified set and its date as the module sets them at import
AtImport == [ _NOTIFIED_DATE |-> NoDate, _NOTIFIED_TASK_IDS |-> {} ]

\* no request is in exec_rules
NotInExecRules == [ pc |-> "idle", rule_name |-> "none", out |-> "none" ]

\* todo.py at import: the lock is free and last_run is 0.0
InitExec ==
    /\ RULE_EXEC_LOCK = FALSE
    /\ RULE_EXEC_STATE = [ last_run |-> 0 ]
    /\ monotonic = 0
    /\ handler = [ r \in Requests |-> NotInExecRules ]

InitMore ==
    /\ InitMutex
    /\ raised = [ p \in Procs |-> {} ]
    /\ stoppedAt = [ p \in Procs |-> "none" ]
    /\ standby = AtImport
    /\ InitExec

InitOther == InitLease /\ InitNotes /\ InitMore

\* the job bodies have not run; every task is of day 1, open, and ends at 0
InitBodies ==
    /\ InitNotified([ t \in TaskIds |-> [ date |-> 1, end_time |-> 0, completion_status |-> "" ] ])
    /\ InitArchive
    /\ added = [ p \in Procs |-> << >> ]
    /\ InitOther

OneRule == [ r \in { 1 } |-> [ rule_name |-> "Rule disable all", enabled |-> TRUE ] ]

NoRules == [ r \in {} |-> [ rule_name |-> "", enabled |-> FALSE ] ]

\* the rule table holds one enabled rule and every process has started:
\* run.py has called load_schedules
Init ==
    /\ InitWith(OneRule, 2, LoadedJobs({}, OneRule))
    /\ lpc = [ p \in Procs |-> "off" ]
    /\ InitBodies

\* the rule table is empty and run.py has not yet called load_schedules
InitReload ==
    /\ InitWith(NoRules, 1, {})
    /\ lpc = [ p \in Procs |-> "off" ]
    /\ InitBodies

\* the timers that elapse in the window modelled: the rule jobs (cron at
\* their start_time) and the job that runs every minute; the 3-minute job
\* and the daily cron jobs of 02:10 and 00:20 stay registered without
\* elapsing
FiringJobs ==
    { RuleJobId(r) : r \in RuleIds \cup { CollidingRuleId } } \cup
    { "notify_overdue_task_feedback" }

\* the wrapped calls in flight, over all processes
InFlight == { c \in Procs \X Threads : thr[c[1]][c[2]].pc # "idle" }

\* ---- a trigger: the engine calls the wrapped callable of a job ----

\* the engine has a free pool thread t and a timer of job j that is due
CanFire(p, t, j) ==
    /\ thr[p][t].pc = "idle"
    /\ \A u \in Threads : u < t => thr[p][u].pc # "idle"
    /\ Cardinality(InFlight) < MaxCalls
    /\ j \in jobs[p] \cap FiringJobs

\* _wrapped, up to the return of _ensure_scheduler_leader
Fire(p, t, j) ==
    /\ CanFire(p, t, j)
    /\ LeaderCallReturns(p)
    /\ LET r == _ensure_scheduler_leader(p)
           pc == WrapAfterLeader(r.ret)
       IN  /\ _IS_SCHEDULER_LEADER' = [_IS_SCHEDULER_LEADER EXCEPT ![p] = r.leader]
           /\ _SCHEDULER_LEADER_CONN' = [_SCHEDULER_LEADER_CONN EXCEPT ![p] = r.conn]
           /\ thr' = [thr EXCEPT ![p][t] =
                 [ pc |-> pc, job |-> j,
                   leader |-> IF r.ret THEN "true" ELSE "false",
                   lock |-> "none", fn |-> "none",
                   ret |-> IF pc = "returned" THEN _JOB_SKIPPED ELSE "none" ]]
    /\ UNCHANGED << dbUp, rules, nextId, jobs, _JOB_LOCKS, faults >>

\* _ensure_job_lock, the look in the cache under _JOB_LOCKS_LOCK
JobLockLookup(p, t) ==
    /\ thr[p][t].pc = "job_lock"
    /\ IF JobLockCached(p, thr[p][t].job)
       THEN LET pc == WrapAfterJobLock(TRUE)
            IN  thr' = [thr EXCEPT ![p][t].pc = pc, ![p][t].lock = "true",
                           ![p][t].ret =
                               IF pc = "returned" THEN _JOB_SKIPPED ELSE "none"]
       ELSE thr' = [thr EXCEPT ![p][t].pc = "lock_try"]
    /\ UNCHANGED << dbUp, rules, nextId, jobs, _IS_SCHEDULER_LEADER, _SCHEDULER_LEADER_CONN, _JOB_LOCKS,
                    faults >>

\* _ensure_job_lock, the try-acquire on a fresh connection and the store
JobLockTry(p, t) ==
    /\ thr[p][t].pc = "lock_try"
    /\ JobLockCallReturns(thr[p][t].job)
    /\ LET j == thr[p][t].job
           r == _ensure_job_lock(p, j)
           pc == WrapAfterJobLock(r.ret)
       IN  /\ _JOB_LOCKS' = [_JOB_LOCKS EXCEPT ![p][j] = r.conn]
           /\ thr' = [thr EXCEPT ![p][t].pc = pc,
                         ![p][t].lock = IF r.ret THEN "true" ELSE "false",
                         ![p][t].ret =
                             IF pc = "returned" THEN _JOB_SKIPPED ELSE "none"]
    /\ UNCHANGED << dbUp, rules, nextId, jobs, _IS_SCHEDULER_LEADER, _SCHEDULER_LEADER_CONN, faults >>

\* as WrappedReturns, with an except clause that turns an exception of the
\* body into the skip sentinel
ExceptionSwallowed(outcome) == IF outcome = "raised" THEN _JOB_SKIPPED ELSE outcome

\* _wrapped, `return func(*args, **kwargs)`: what the body returns is
\* returned, what it raises is raised
WrappedReturns(outcome) == outcome

\* the job body returns or raises; _wrapped passes the outcome on
FnReturn(p, t, outcome) ==
    /\ thr[p][t].pc = "running"
    /\ thr' = [thr EXCEPT ![p][t].pc = "returned", ![p][t].fn = outcome,
                  ![p][t].ret = WrappedReturns(outcome)]
    /\ UNCHANGED << dbUp, rules, nextId, jobs, _IS_SCHEDULER_LEADER, _SCHEDULER_LEADER_CONN, _JOB_LOCKS,
                    faults >>

\* the engine hands the outcome to _log_job_event; the thread is free again
LogJobEvent(p, t) ==
    /\ thr[p][t].pc = "returned"
    /\ thr' = [thr EXCEPT ![p][t] = Idle]
    /\ UNCHANGED << dbUp, rules, nextId, jobs, _IS_SCHEDULER_LEADER, _SCHEDULER_LEADER_CONN, _JOB_LOCKS,
                    faults >>

\* ---- change notification ----

\* _SCHEDULER_INSTANCE_ID of process p: a uuid4 drawn at import
_SCHEDULER_INSTANCE_ID(p) == p

\* notify_schedule_change: pg_notify hands the instance id to every session
\* that listens on the channel; a failure is logged and swallowed
notify_schedule_change(p) ==
    chan' = [ q \in Procs |->
                IF dbUp /\ listening[q]
                THEN Append(chan[q], _SCHEDULER_INSTANCE_ID(p))
                ELSE chan[q] ]

\* ---- Reload callers ----

\* load_schedules called by run.py at start-up, by the change listener or by
\* exec_rules: the rule table is read as it stands
LoadSchedules(p) ==
    /\ dbUp
    /\ load_schedules(p, jobs[p], rules)
    /\ UNCHANGED << dbUp, rules, nextId, _IS_SCHEDULER_LEADER, _SCHEDULER_LEADER_CONN, thr, faults >>

\* load_schedules while the store is down: the jobs are removed, then
\* get_db_connection raises
LoadSchedulesRaises(p) ==
    /\ ~dbUp
    /\ jobs' = [jobs EXCEPT ![p] = RemoveAllJobs(jobs[p])]
    /\ UNCHANGED << dbUp, rules, nextId, _IS_SCHEDULER_LEADER, _SCHEDULER_LEADER_CONN, _JOB_LOCKS, thr,
                    faults >>

\* schedule_rules, action "add"
ScheduleRulesAdd(p, rule_name) ==
    /\ dbUp
    /\ nextId <= MaxRuleId
    /\ rules' = [ r \in DOMAIN rules \cup { nextId } |->
                    IF r = nextId
                    THEN [ rule_name |-> rule_name, enabled |-> TRUE ]
                    ELSE rules[r] ]
    /\ nextId' = nextId + 1
    /\ load_schedules(p, jobs[p], rules')
    /\ notify_schedule_change(p)
    /\ UNCHANGED << dbUp, _IS_SCHEDULER_LEADER, _SCHEDULER_LEADER_CONN, thr, faults >>

\* schedule_rules, action "delete"
ScheduleRulesDelete(p, rule_id) ==
    /\ dbUp
    /\ rules' = [ r \in DOMAIN rules \ { rule_id } |-> rules[r] ]
    /\ load_schedules(p, remove_job(jobs[p], rule_id), rules')
    /\ notify_schedule_change(p)
    /\ UNCHANGED << dbUp, nextId, _IS_SCHEDULER_LEADER, _SCHEDULER_LEADER_CONN, thr, faults >>

\* schedule_rules, actions "enable" and "disable"
ScheduleRulesSetEnabled(p, rule_id, enabled) ==
    /\ dbUp
    /\ rules' = [ r \in DOMAIN rules |->
                    IF r = rule_id
                    THEN [ rules[r] EXCEPT !.enabled = enabled ]
                    ELSE rules[r] ]
    /\ load_schedules(p, jobs[p], rules')
    /\ notify_schedule_change(p)
    /\ UNCHANGED << dbUp, nextId, _IS_SCHEDULER_LEADER, _SCHEDULER_LEADER_CONN, thr, faults >>

\* schedule_rules, action "update": start_time, end_time and day_of_week
\* change, the columns that decide the job ids do not
ScheduleRulesUpdate(p, rule_id) ==
    /\ dbUp
    /\ rule_id \in DOMAIN rules
    /\ load_schedules(p, jobs[p], rules)
    /\ notify_schedule_change(p)
    /\ UNCHANGED << dbUp, rules, nextId, _IS_SCHEDULER_LEADER, _SCHEDULER_LEADER_CONN, thr, faults >>

\* schedule_rules, action "assign": the assignment of the user is written
\* and committed; neither load_schedules nor notify_schedule_change is called
ScheduleRulesAssign(p, value) ==
    /\ dbUp
    /\ user_rule_assignment' = value
    /\ UNCHANGED << lockVars, chan >>

\* ---- the change listener ----

\* as ListenerCallsReload, with no test of the payload
ReloadOnAnyPayload(p, payload) == TRUE

\* _listen_once: the test of notify.payload
ListenerCallsReload(p, payload) == payload # _SCHEDULER_INSTANCE_ID(p)

\* as AfterListenerRaises, with no except clause around _listen_once
ListenerThreadDies(p) == "exited"

\* _listen_for_schedule_changes: where the thread stands once _listen_once
\* has raised
AfterListenerRaises(p) == "sleep"

\* _listen_for_schedule_changes tests _LISTENER_STOP and calls _listen_once,
\* which connects and executes LISTEN
ListenConnect(p) ==
    /\ lpc[p] = "loop"
    /\ IF _LISTENER_STOP[p]
       THEN lpc' = [lpc EXCEPT ![p] = "exited"] /\ UNCHANGED listening
       ELSE IF dbUp
       THEN /\ lpc' = [lpc EXCEPT ![p] = "select"]
            /\ listening' = [listening EXCEPT ![p] = TRUE]
       ELSE lpc' = [lpc EXCEPT ![p] = AfterListenerRaises(p)] /\ UNCHANGED listening
    /\ UNCHANGED << lockVars, chan, notifies, _LISTENER_STOP >>

\* select reports the connection readable and conn.poll() moves what has
\* arrived to conn.notifies
ListenWake(p) ==
    /\ lpc[p] = "select"
    /\ ~_LISTENER_STOP[p]
    /\ listening[p]
    /\ chan[p] # << >>
    /\ notifies' = [notifies EXCEPT ![p] = notifies[p] \o chan[p]]
    /\ chan' = [chan EXCEPT ![p] = << >>]
    /\ lpc' = [lpc EXCEPT ![p] = "drain"]
    /\ UNCHANGED << lockVars, listening, _LISTENER_STOP >>

\* the inner loop of _listen_once: one message of conn.notifies
ListenPop(p) ==
    /\ lpc[p] = "drain"
    /\ notifies[p] # << >>
    /\ LET notify == Head(notifies[p])
       IN  IF ~ListenerCallsReload(p, notify)
           THEN /\ notifies' = [notifies EXCEPT ![p] = Tail(notifies[p])]
                /\ UNCHANGED << jobs, _JOB_LOCKS, chan, lpc, listening >>
           ELSE IF dbUp
           THEN /\ load_schedules(p, jobs[p], rules)
                /\ notifies' = [notifies EXCEPT ![p] = Tail(notifies[p])]
                /\ UNCHANGED << chan, lpc, listening >>
           ELSE /\ jobs' = [jobs EXCEPT ![p] = RemoveAllJobs(jobs[p])]
                /\ notifies' = [notifies EXCEPT ![p] = << >>]
                /\ chan' = [chan EXCEPT ![p] = << >>]
                /\ listening' = [listening EXCEPT ![p] = FALSE]
                /\ lpc' = [lpc EXCEPT ![p] = AfterListenerRaises(p)]
                /\ UNCHANGED _JOB_LOCKS
    /\ UNCHANGED << dbUp, rules, nextId, _IS_SCHEDULER_LEADER, _SCHEDULER_LEADER_CONN, thr, faults,
                    _LISTENER_STOP >>

\* conn.notifies is empty: back to the test of _LISTENER_STOP and to select
ListenDrained(p) ==
    /\ lpc[p] = "drain"
    /\ notifies[p] = << >>
    /\ lpc' = [lpc EXCEPT ![p] = "select"]
    /\ UNCHANGED << lockVars, chan, notifies, listening, _LISTENER_STOP >>

\* the session of the listener is gone: select or conn.poll() raises, the
\* finally clause closes the connection
ListenBroken(p) ==
    /\ lpc[p] = "select"
    /\ ~_LISTENER_STOP[p]
    /\ ~listening[p]
    /\ lpc' = [lpc EXCEPT ![p] = AfterListenerRaises(p)]
    /\ UNCHANGED << lockVars, chan, notifies, listening, _LISTENER_STOP >>

\* time.sleep(5) is over
ListenSleep(p) ==
    /\ lpc[p] = "sleep"
    /\ lpc' = [lpc EXCEPT ![p] = "loop"]
    /\ UNCHANGED << lockVars, chan, notifies, listening, _LISTENER_STOP >>

\* _stop_schedule_listener, registered with atexit
StopScheduleListener(p) ==
    /\ ~_LISTENER_STOP[p]
    /\ _LISTENER_STOP' = [_LISTENER_STOP EXCEPT ![p] = TRUE]
    /\ UNCHANGED << lockVars, chan, notifies, lpc, listening >>

\* _listen_once sees _LISTENER_STOP set: the loop ends, the finally clause
\* closes the connection
ListenStopSeen(p) ==
    /\ lpc[p] = "select"
    /\ _LISTENER_STOP[p]
    /\ lpc' = [lpc EXCEPT ![p] = "loop"]
    /\ listening' = [listening EXCEPT ![p] = FALSE]
    /\ chan' = [chan EXCEPT ![p] = << >>]
    /\ UNCHANGED << lockVars, notifies, _LISTENER_STOP >>

\* ---- the environment: sessions and the store fail ----

\* the backend session of a listener is terminated; what it had not yet
\* been sent to the client is gone
ListenSessionEnds(p) ==
    /\ listening[p]
    /\ listening' = [listening EXCEPT ![p] = FALSE]
    /\ chan' = [chan EXCEPT ![p] = << >>]
    /\ UNCHANGED << dbUp, rules, nextId, jobs, _IS_SCHEDULER_LEADER, _SCHEDULER_LEADER_CONN,
                    _JOB_LOCKS, thr, notifies, lpc, _LISTENER_STOP >>

\* one of the bounded number of faults: the session of a listener ends
LoseListenConn(p) ==
    /\ faults < MaxFaults
    /\ ListenSessionEnds(p)
    /\ faults' = faults + 1

\* the backend session of a leadership connection is terminated
LoseLeaderConn(p) ==
    /\ faults < MaxFaults
    /\ _SCHEDULER_LEADER_CONN[p] \in LiveConns
    /\ _SCHEDULER_LEADER_CONN' = [_SCHEDULER_LEADER_CONN EXCEPT ![p] = "dead"]
    /\ faults' = faults + 1
    /\ UNCHANGED << dbUp, rules, nextId, jobs, _IS_SCHEDULER_LEADER, _JOB_LOCKS, thr >>

\* the backend session of a cached job-lock connection is terminated
LoseJobConn(p, j) ==
    /\ faults < MaxFaults
    /\ _JOB_LOCKS[p][j] \in LiveConns
    /\ _JOB_LOCKS' = [_JOB_LOCKS EXCEPT ![p][j] = "dead"]
    /\ faults' = faults + 1
    /\ UNCHANGED << dbUp, rules, nextId, jobs, _IS_SCHEDULER_LEADER, _SCHEDULER_LEADER_CONN, thr >>

Terminated(conn) == IF conn \in LiveConns THEN "dead" ELSE conn

\* the store goes down: every session ends, new connections are refused
DbOutage ==
    /\ faults < MaxFaults
    /\ dbUp
    /\ dbUp' = FALSE
    /\ _SCHEDULER_LEADER_CONN' = [ p \in Procs |-> Terminated(_SCHEDULER_LEADER_CONN[p]) ]
    /\ _JOB_LOCKS' =
         [ p \in Procs |-> [ j \in AllJobIds |-> Terminated(_JOB_LOCKS[p][j]) ] ]
    /\ listening' = [ p \in Procs |-> FALSE ]
    /\ chan' = [ p \in Procs |-> << >> ]
    /\ faults' = faults + 1
    /\ UNCHANGED << rules, nextId, jobs, _IS_SCHEDULER_LEADER, thr >>

\* the store is back
DbRecover ==
    /\ ~dbUp
    /\ dbUp' = TRUE
    /\ UNCHANGED << rules, nextId, jobs, _IS_SCHEDULER_LEADER, _SCHEDULER_LEADER_CONN, _JOB_LOCKS, thr,
                    faults >>

\* ---- history of the Reloads ----

\* a step in which process p runs load_schedules to its end
Reloads(p) ==
    \/ LoadSchedules(p)
    \/ \E n \in RuleNameInputs : ScheduleRulesAdd(p, n)
    \/ \E r \in RuleIds : ScheduleRulesDelete(p, r)
    \/ \E r \in RuleIds, e \in BOOLEAN : ScheduleRulesSetEnabled(p, r, e)
    \/ \E r \in RuleIds : ScheduleRulesUpdate(p, r)

\* process p has run load_schedules to its end in this step
Completed(p) ==
    /\ UNCHANGED << user_rule_assignment, chan, listenVars, due, bodyVars >>
    /\ loadedJobs' = [loadedJobs EXCEPT ![p] = jobs'[p]]
    /\ runs' = [ q \in Procs |->
                   LET since == IF rules' = rules THEN runs[q] ELSE 0
                   IN  IF q # p THEN since
                       ELSE IF since < MaxRuns THEN since + 1 ELSE since ]

\* a step that completes no load_schedules, or one whose history is not kept
Unobserved == UNCHANGED << history, user_rule_assignment, chan, listenVars, due, bodyVars >>

\* the lock protocol: triggers, Reloads, a rule switched on and off, faults
Next ==
    \/ \E p \in Procs, t \in Threads, j \in AllJobIds : Fire(p, t, j) /\ Unobserved
    \/ \E p \in Procs, t \in Threads : JobLockLookup(p, t) /\ Unobserved
    \/ \E p \in Procs, t \in Threads : JobLockTry(p, t) /\ Unobserved
    \/ \E p \in Procs, t \in Threads, o \in { "ok", "raised" } :
          FnReturn(p, t, o) /\ Unobserved
    \/ \E p \in Procs, t \in Threads : LogJobEvent(p, t) /\ Unobserved
    \/ \E p \in Procs : LoadSchedules(p) /\ Unobserved
    \/ \E p \in Procs, r \in RuleIds, e \in BOOLEAN :
          ScheduleRulesSetEnabled(p, r, e) /\ Unobserved
    \/ \E p \in Procs : LoseLeaderConn(p) /\ Unobserved
    \/ \E p \in Procs, j \in AllJobIds : LoseJobConn(p, j) /\ Unobserved
    \/ DbOutage /\ Unobserved
    \/ DbRecover /\ Unobserved

Spec == Init /\ [][Next]_vars

\* rule management: every rule mutation, Reloads, triggers on one engine
\* thread per process
NextReload ==
    \/ \E p \in Procs, j \in AllJobIds : Fire(p, 1, j) /\ Unobserved
    \/ \E p \in Procs : JobLockLookup(p, 1) /\ Unobserved
    \/ \E p \in Procs : JobLockTry(p, 1) /\ Unobserved
    \/ \E p \in Procs, o \in { "ok", "raised" } : FnReturn(p, 1, o) /\ Unobserved
    \/ \E p \in Procs : LogJobEvent(p, 1) /\ Unobserved
    \/ \E p \in Procs : LoadSchedules(p) /\ Completed(p)
    \/ \E p \in Procs, n \in RuleNameInputs : ScheduleRulesAdd(p, n) /\ Completed(p)
    \/ \E p \in Procs, r \in RuleIds : ScheduleRulesDelete(p, r) /\ Completed(p)
    \/ \E p \in Procs, r \in RuleIds, e \in BOOLEAN :
          ScheduleRulesSetEnabled(p, r, e) /\ Completed(p)
    \/ \E p \in Procs, r \in RuleIds : ScheduleRulesUpdate(p, r) /\ Completed(p)

SpecReload == InitReload /\ [][NextReload]_vars

\* ---- history of the notifications ----

\* every listener can take one more notification
ChanRoom == \A q \in Procs : Len(chan[q]) + Len(notifies[q]) < MaxPending

\* the rule mutations of schedule_rules in process p
Mutates(p) ==
    \/ \E n \in RuleNameInputs : ScheduleRulesAdd(p, n)
    \/ \E r \in RuleIds : ScheduleRulesDelete(p, r)
    \/ \E r \in RuleIds, e \in BOOLEAN : ScheduleRulesSetEnabled(p, r, e)
    \/ \E r \in RuleIds : ScheduleRulesUpdate(p, r)
    \/ \E v \in RuleNameInputs : ScheduleRulesAssign(p, v)

\* process p has committed in this step: if the rule table changed, p has
\* reloaded itself and every other listener has as many notifications to
\* take as its session now holds
Told(p) ==
    due' = IF rules' = rules THEN due
           ELSE [ q \in Procs |->
                    IF q = p THEN 0
                    ELSE IF listening[q] THEN Len(chan'[q]) + Len(notifies[q])
                    ELSE -1 ]

\* the listener of p has taken one notification in this step; if it raised,
\* the others it held are gone
Taken(p) ==
    due' = [due EXCEPT ![p] =
              IF due[p] <= 0 THEN due[p]
              ELSE IF due[p] = 1 THEN 0
              ELSE IF notifies'[p] = << >> /\ chan'[p] = << >> THEN -1
              ELSE due[p] - 1]

\* sessions have ended in this step: a notification that was still with the
\* backend is gone
Dropped ==
    due' = [ q \in Procs |->
               IF due[q] <= 0 THEN due[q]
               ELSE IF due[q] > Len(notifies'[q]) + Len(chan'[q]) THEN -1
               ELSE due[q] ]

\* the frame of the steps of the listener and of the rule mutations
ListenFrame == UNCHANGED << history, user_rule_assignment, crashes, bodyVars >>

\* every process has started: run.py has called load_schedules and the
\* listener thread runs
InitListen ==
    /\ InitWith(OneRule, 2, LoadedJobs({}, OneRule))
    /\ lpc = [ p \in Procs |-> "loop" ]
    /\ InitBodies

\* the change notification protocol: the rule mutations on rule 1 and a
\* second rule added, the listeners, faults
NextListen ==
    \/ \E p \in Procs :
          ChanRoom /\ ScheduleRulesAdd(p, "Rule disable all") /\ Told(p)
            /\ UNCHANGED << history, user_rule_assignment, listenVars, bodyVars >>
    \/ \E p \in Procs :
          ChanRoom /\ ScheduleRulesDelete(p, 1) /\ Told(p)
            /\ UNCHANGED << history, user_rule_assignment, listenVars, bodyVars >>
    \/ \E p \in Procs, e \in BOOLEAN :
          ChanRoom /\ ScheduleRulesSetEnabled(p, 1, e) /\ Told(p)
            /\ UNCHANGED << history, user_rule_assignment, listenVars, bodyVars >>
    \/ \E p \in Procs :
          ChanRoom /\ ScheduleRulesUpdate(p, 1) /\ Told(p)
            /\ UNCHANGED << history, user_rule_assignment, listenVars, bodyVars >>
    \/ \E p \in Procs :
          ScheduleRulesAssign(p, "Rule disable all")
            /\ UNCHANGED << history, listenVars, due, bodyVars >>
    \/ \E p \in Procs : ListenConnect(p) /\ ListenFrame /\ UNCHANGED due
    \/ \E p \in Procs : ListenWake(p) /\ ListenFrame /\ UNCHANGED due
    \/ \E p \in Procs : ListenPop(p) /\ ListenFrame /\ Taken(p)
    \/ \E p \in Procs : ListenDrained(p) /\ ListenFrame /\ UNCHANGED due
    \/ \E p \in Procs : ListenBroken(p) /\ ListenFrame /\ UNCHANGED due
    \/ \E p \in Procs : ListenSleep(p) /\ ListenFrame /\ UNCHANGED due
    \/ \E p \in Procs : LoseListenConn(p) /\ ListenFrame /\ Dropped
    \/ DbOutage /\ ListenFrame /\ UNCHANGED << notifies, lpc, _LISTENER_STOP >> /\ Dropped
    \/ DbRecover /\ ListenFrame /\ UNCHANGED << chan, listenVars, due, bodyVars >>
    \/ \E p \in Procs :
          LoadSchedulesRaises(p) /\ ListenFrame /\ UNCHANGED << chan, listenVars, due >>

SpecListen == InitListen /\ [][NextListen]_vars

\* ---- the listener thread across failures ----

\* the step the listener thread of p is about to take raises out of
\* _listen_once: the connection is refused, select or conn.poll() finds the
\* session gone, or load_schedules raises
Raises(p) ==
    \/ lpc[p] = "loop" /\ ~_LISTENER_STOP[p] /\ ~dbUp
    \/ lpc[p] = "select" /\ ~_LISTENER_STOP[p] /\ ~listening[p]
    \/ /\ lpc[p] = "drain" /\ notifies[p] # << >>
       /\ ListenerCallsReload(p, Head(notifies[p])) /\ ~dbUp

\* the listener thread of p has taken a step: count it if it raised
Crashed(p) ==
    /\ Raises(p) => crashes[p] < MaxCrashes
    /\ crashes' = [crashes EXCEPT ![p] = IF Raises(p) THEN @ + 1 ELSE @]

\* the steps of the listener thread of p
ListenerStep(p) ==
    \/ ListenConnect(p)
    \/ ListenWake(p)
    \/ ListenPop(p)
    \/ ListenDrained(p)
    \/ ListenBroken(p)
    \/ ListenSleep(p)
    \/ ListenStopSeen(p)

CrashFrame == UNCHANGED << history, user_rule_assignment, due, bodyVars >>

\* the listeners under repeated session losses, an outage and the stop flag;
\* process 1 enables and disables rule 1 to give them notifications
NextCrash ==
    \/ \E e \in BOOLEAN :
          ChanRoom /\ ScheduleRulesSetEnabled(1, 1, e)
            /\ UNCHANGED << history, user_rule_assignment, listenVars, due, bodyVars >>
    \/ \E p \in Procs : ListenConnect(p) /\ Crashed(p) /\ CrashFrame
    \/ \E p \in Procs : ListenWake(p) /\ Crashed(p) /\ CrashFrame
    \/ \E p \in Procs : ListenPop(p) /\ Crashed(p) /\ CrashFrame
    \/ \E p \in Procs : ListenDrained(p) /\ Crashed(p) /\ CrashFrame
    \/ \E p \in Procs : ListenBroken(p) /\ Crashed(p) /\ CrashFrame
    \/ \E p \in Procs : ListenSleep(p) /\ Crashed(p) /\ CrashFrame
    \/ \E p \in Procs : ListenStopSeen(p) /\ Crashed(p) /\ CrashFrame
    \/ \E p \in Procs : StopScheduleListener(p) /\ CrashFrame /\ UNCHANGED crashes
    \/ \E p \in Procs :
          /\ crashes[p] < MaxCrashes
          /\ ListenSessionEnds(p) /\ CrashFrame /\ UNCHANGED << faults, crashes >>
    \/ DbOutage /\ CrashFrame /\ UNCHANGED << notifies, lpc, _LISTENER_STOP, crashes >>
    \/ DbRecover /\ CrashFrame /\ UNCHANGED << chan, listenVars >>

\* the listener thread is a running thread: it goes on whenever it can
SpecCrash ==
    /\ InitListen
    /\ [][NextCrash]_vars
    /\ \A p \in Procs : WF_vars(ListenerStep(p) /\ Crashed(p) /\ CrashFrame)


\* ---- notify_overdue_task_feedback ----

\* as DateChanged, with no test of _NOTIFIED_DATE
DateAlwaysChanged(date) == TRUE

\* the test today != _NOTIFIED_DATE
DateChanged(date) == date # _NOTIFIED_DATE

\* the SELECT on todo_list: the ids of the rows of CURRENT_DATE whose
\* completion_status is empty
OpenTasksOf(current_date) ==
    { t \in TaskIds :
        todo_list[t].date = current_date /\ todo_list[t].completion_status = "" }

\* the loop body up to `if now < end_dt: continue`: the end of time_slot
\* parses and now is not before it
Overdue(t, now) ==
    /\ todo_list[t].end_time # Unparsable
    /\ ~(now < todo_list[t].end_time)

\* the rows of the loop for which send_hammerspoon_alert is called
Alerted(fetched, now) ==
    { t \in fetched : t \notin _NOTIFIED_TASK_IDS /\ Overdue(t, now) }

\* the engine invokes the job (one instance of a job id at a time); today is
\* read and the notified set is cleared if the date is another one
NotifyBegin ==
    /\ npc = "idle"
    /\ invocations[clock.day] < MaxInvocations
    /\ today' = clock.day
    /\ IF DateChanged(clock.day)
       THEN _NOTIFIED_DATE' = clock.day /\ _NOTIFIED_TASK_IDS' = {}
       ELSE UNCHANGED << _NOTIFIED_DATE, _NOTIFIED_TASK_IDS >>
    /\ npc' = "query"
    /\ UNCHANGED << clock, todo_list, rows, alerts, invocations >>

\* the SELECT and fetchall
NotifyQuery ==
    /\ npc = "query"
    /\ rows' = OpenTasksOf(clock.day)
    /\ npc' = "loop"
    /\ UNCHANGED << clock, todo_list, _NOTIFIED_DATE, _NOTIFIED_TASK_IDS, today, alerts,
                    invocations >>

\* now is read and the rows are gone through; the function returns
NotifyLoop ==
    /\ npc = "loop"
    /\ LET alerted == Alerted(rows, clock.time)
       IN  /\ alerts' = [ t \in TaskIds |-> [ d \in Days |->
                            IF t \in alerted /\ d = today
                            THEN alerts[t][d] + 1 ELSE alerts[t][d] ] ]
           /\ _NOTIFIED_TASK_IDS' = _NOTIFIED_TASK_IDS \cup alerted
    /\ invocations' = [invocations EXCEPT ![today] = @ + 1]
    /\ rows' = {}
    /\ npc' = "idle"
    /\ UNCHANGED << clock, todo_list, _NOTIFIED_DATE, today >>

\* time passes, within the day or over midnight
Tick ==
    /\ IF clock.time < MaxTime
       THEN clock' = [clock EXCEPT !.time = @ + 1]
       ELSE /\ clock.day < MaxDay
            /\ clock' = [ day |-> clock.day + 1, time |-> 0 ]
    /\ UNCHANGED << todo_list, _NOTIFIED_DATE, _NOTIFIED_TASK_IDS, npc, today, rows, alerts,
                    invocations >>

\* the user gives feedback on task t: completion_status is no longer empty
GiveFeedback(t) ==
    /\ todo_list[t].completion_status = ""
    /\ todo_list' = [todo_list EXCEPT ![t].completion_status = "done"]
    /\ UNCHANGED << clock, _NOTIFIED_DATE, _NOTIFIED_TASK_IDS, npc, today, rows, alerts,
                    invocations >>

\* the scheduler, the channel and the listeners stand still
NotifyFrame ==
    UNCHANGED << lockVars, history, user_rule_assignment, chan, listenVars, due, archiveVars, added,
                 otherVars >>

\* any open todo_list at import
InitNotify ==
    /\ InitWith(NoRules, 1, {})
    /\ lpc = [ p \in Procs |-> "off" ]
    /\ \E table \in [ TaskIds -> TodoRows ] :
          /\ \A t \in TaskIds : table[t].completion_status = ""
          /\ InitNotified(table)
    /\ InitArchive
    /\ added = [ p \in Procs |-> << >> ]
    /\ InitOther

NextNotify ==
    \/ NotifyBegin /\ NotifyFrame
    \/ NotifyQuery /\ NotifyFrame
    \/ NotifyLoop /\ NotifyFrame
    \/ Tick /\ NotifyFrame
    \/ \E t \in TaskIds : GiveFeedback(t) /\ NotifyFrame

SpecNotify == InitNotify /\ [][NextNotify]_vars


\* ---- archive_completed_tasks ----

\* the connection get_db_connection returns: psycopg2's default, statements
\* run in a transaction until commit or rollback
get_db_connection == [ autocommit |-> FALSE ]

\* completed_at.strftime("%Y-%m-%d %H:%M:%S"): the part below the second
\* is dropped
Strftime(t) == t - (t % TicksPerSecond)

\* the SELECT: completed = TRUE AND completed_at < cutoff
SelectedBefore(cutoff) ==
    { g \in GoalIds :
        /\ long_term_goals[g].present /\ long_term_goals[g].completed
        /\ long_term_goals[g].completed_at # Null
        /\ long_term_goals[g].completed_at < cutoff }

\* the orders in which fetchall can return the rows of S (no ORDER BY)
Orders(S) ==
    { o \in [ 1..Cardinality(S) -> S ] :
        \A a, b \in 1..Cardinality(S) : a # b => o[a] # o[b] }

\* the row the INSERT writes for goal g
HistoryRow(goals, g) ==
    [ goal_id |-> g, user_id |-> goals[g].user_id, task_text |-> goals[g].task_text,
      priority |-> goals[g].priority, completed_at |-> Strftime(goals[g].completed_at),
      time_spent |-> goals[g].time_spent ]

\* the except clause of the loop logs and goes on: what stands after a
\* statement of the row has raised. In a transaction the statements that
\* follow raise until a rollback, and what the row had written is not
\* committed
AfterRowRaises(conn, st) ==
    IF conn.autocommit THEN st ELSE [st EXCEPT !.aborted = TRUE]

\* a loop body whose statements each take effect as they are executed: the
\* INSERT of a row stands although its DELETE has raised
MoveRowStatementwise(conn, st, g, insert_fails, delete_fails) ==
    IF g \in insert_fails
    THEN st
    ELSE IF g \in delete_fails
    THEN [st EXCEPT !.his = @ \cup { HistoryRow(st.goals, g) }]
    ELSE [st EXCEPT !.his = @ \cup { HistoryRow(st.goals, g) },
                    !.goals[g].present = FALSE]

\* one pass of the loop, for goal g: INSERT, DELETE, commit
MoveRow(conn, st, g, insert_fails, delete_fails) ==
    IF st.aborted \/ g \in insert_fails
    THEN AfterRowRaises(conn, st)
    ELSE IF g \in delete_fails
    THEN AfterRowRaises(conn,
             IF conn.autocommit
             THEN [st EXCEPT !.his = @ \cup { HistoryRow(st.goals, g) }]
             ELSE st)
    ELSE [st EXCEPT !.his = @ \cup { HistoryRow(st.goals, g) },
                    !.goals[g].present = FALSE]

\* the loop over rows
RECURSIVE MoveRows(_, _, _, _, _)
MoveRows(conn, st, fetched, insert_fails, delete_fails) ==
    IF fetched = << >>
    THEN st
    ELSE MoveRows(conn, MoveRow(conn, st, Head(fetched), insert_fails, delete_fails),
                  Tail(fetched), insert_fails, delete_fails)

\* archive_completed_tasks, one run; the store refuses the INSERT of the
\* goals of insert_fails and the DELETE of those of delete_fails
archive_completed_tasks(fetched, insert_fails, delete_fails) ==
    /\ sweeps < MaxSweeps
    /\ LET three_days_ago == wall - ThreeDays
       IN  fetched \in Orders(SelectedBefore(three_days_ago))
    /\ LET conn == get_db_connection
           st == MoveRows(conn,
                          [ goals |-> long_term_goals, his |-> long_term_goals_his,
                            aborted |-> FALSE ],
                          fetched, insert_fails, delete_fails)
       IN  /\ long_term_goals' = st.goals
           /\ long_term_goals_his' = st.his
    /\ sweeps' = sweeps + 1
    /\ failing' = [ insert |-> insert_fails, delete |-> delete_fails ]
    /\ UNCHANGED wall

\* goals.py: the user marks goal g completed now
CompleteGoal(g) ==
    /\ long_term_goals[g].present /\ ~long_term_goals[g].completed
    /\ long_term_goals' =
         [long_term_goals EXCEPT ![g].completed = TRUE, ![g].completed_at = wall]
    /\ UNCHANGED << wall, long_term_goals_his, sweeps, failing >>

\* time passes
WallTick ==
    /\ wall < MaxWall
    /\ wall' = wall + 1
    /\ UNCHANGED << long_term_goals, long_term_goals_his, sweeps, failing >>

ArchiveFrame ==
    UNCHANGED << lockVars, history, user_rule_assignment, chan, listenVars, due, notifyVars,
                 added, otherVars >>

InitSweep ==
    /\ InitWith(NoRules, 1, {})
    /\ lpc = [ p \in Procs |-> "off" ]
    /\ InitBodies

NextSweep ==
    \/ \E g \in GoalIds : CompleteGoal(g) /\ ArchiveFrame
    \/ WallTick /\ ArchiveFrame
    \/ \E fetched \in UNION { Orders(S) : S \in SUBSET GoalIds },
          insert_fails \in SUBSET GoalIds, delete_fails \in SUBSET GoalIds :
          /\ insert_fails \cup delete_fails \subseteq { fetched[k] : k \in 1..Len(fetched) }
          /\ insert_fails \cap delete_fails = {}
          /\ archive_completed_tasks(fetched, insert_fails, delete_fails)
          /\ ArchiveFrame

SpecSweep == InitSweep /\ [][NextSweep]_vars


\* ---- load_schedules: the add_job calls in their order ----

\* as RemoveAllJobsList, removing nothing
KeepJobList(list) == list

\* scheduler.remove_all_jobs(), on the list of the jobs added
RemoveAllJobsList(list) == << >>

\* the rule loop over the rows as fetched: one add_job for every row whose
\* rule_name is in RULE_FUNCTIONS
RECURSIVE RuleJobList(_, _)
RuleJobList(fetched, table) ==
    IF fetched = << >>
    THEN << >>
    ELSE LET rest == RuleJobList(Tail(fetched), table)
         IN  IF table[Head(fetched)].rule_name \in RULE_FUNCTIONS
             THEN << RuleJobId(Head(fetched)) >> \o rest
             ELSE rest

\* the add_job calls that follow the rule loop
BuiltinJobList ==
    << "archive_completed_tasks", "analyze_logs",
       "notify_overdue_task_feedback", "run_adguard_pull" >>

\* load_schedules: the jobs in the order added when it returns
LoadedJobList(list, fetched, table) ==
    RemoveAllJobsList(list) \o RuleJobList(fetched, table) \o BuiltinJobList

\* the load_schedules of this step in process p: its SELECT returns the
\* enabled rows in the order fetched
Listed(p, fetched) ==
    /\ fetched \in Orders(EnabledRules(rules'))
    /\ added' = [added EXCEPT ![p] = LoadedJobList(added[p], fetched, rules')]

\* the rule tables of up to MaxRuleId rules
RuleTables ==
    UNION { [ D -> [ rule_name : RuleNameInputs, enabled : BOOLEAN ] ] : D \in SUBSET RuleIds }

\* any rule table; no process has called load_schedules yet
InitJobs ==
    /\ \E table \in RuleTables : InitWith(table, MaxRuleId + 1, {})
    /\ lpc = [ p \in Procs |-> "off" ]
    /\ InitBodies

JobsFrame ==
    UNCHANGED << history, user_rule_assignment, listenVars, due, notifyVars, archiveVars,
                 otherVars >>

\* load_schedules at start-up and from the handlers that enable, disable
\* and delete a rule
NextJobs ==
    \/ \E p \in Procs, fetched \in UNION { Orders(S) : S \in SUBSET RuleIds } :
          LoadSchedules(p) /\ Listed(p, fetched) /\ JobsFrame /\ UNCHANGED chan
    \/ \E p \in Procs, r \in RuleIds, e \in BOOLEAN,
          fetched \in UNION { Orders(S) : S \in SUBSET RuleIds } :
          ScheduleRulesSetEnabled(p, r, e) /\ Listed(p, fetched) /\ JobsFrame
    \/ \E p \in Procs, r \in RuleIds,
          fetched \in UNION { Orders(S) : S \in SUBSET RuleIds } :
          ScheduleRulesDelete(p, r) /\ Listed(p, fetched) /\ JobsFrame

SpecJobs == InitJobs /\ [][NextJobs]_vars


\* ---- properties ----

Calls == Procs \X Threads

\* process p holds the leadership lease: it is recorded as leader and the
\* connection it retains is alive
HoldsLeadership(p) == _IS_SCHEDULER_LEADER[p] /\ _SCHEDULER_LEADER_CONN[p] \in LiveConns

\* process p holds the lease of job j: it caches a connection that is alive
HoldsJobLease(p, j) == _JOB_LOCKS[p][j] \in LiveConns

\* process p is executing the body of job j
Executing(p, j) ==
    \E t \in Threads : thr[p][t].pc = "running" /\ thr[p][t].job = j

\* C1: at most one process holds the leadership lease at any instant, and a
\* call of _ensure_scheduler_leader returns True only to the process that
\* holds it then: no other process holds it at that instant
C1_OneLeader ==
    /\ [](\A p, q \in Procs :
            HoldsLeadership(p) /\ HoldsLeadership(q) => p = q)
    /\ [][\A c \in Calls :
            thr[c[1]][c[2]].pc = "idle" /\ thr'[c[1]][c[2]].leader = "true"
            => /\ HoldsLeadership(c[1])'
               /\ \A q \in Procs \ { c[1] } : ~HoldsLeadership(q)']_vars

\* a call returned False to one process while another holds the lease and
\* the store is up
C1_Witness ==
    \E c \in Calls, q \in Procs :
        /\ q # c[1] /\ dbUp
        /\ thr[c[1]][c[2]].leader = "false"
        /\ HoldsLeadership(q)

\* C2: the body of a job id is being executed by at most one process
C2_OneProcessPerJob ==
    \A j \in AllJobIds, p, q \in Procs : Executing(p, j) /\ Executing(q, j) => p = q

\* C3: of two overlapping invocations of one job's wrapped callable on two
\* threads of one process, at most one runs the body
C3_OneThreadPerJob ==
    \A p \in Procs, t, u \in Threads :
        /\ thr[p][t].pc = "running" /\ thr[p][u].pc = "running"
        /\ thr[p][t].job = thr[p][u].job
        => t = u

\* C4: at most one process holds the lease of a job id at any instant
C4_OneLeaseHolder ==
    \A j \in AllJobIds, p, q \in Procs :
        HoldsJobLease(p, j) /\ HoldsJobLease(q, j) => p = q

\* a leader asked for the lock of a job whose lease another process holds,
\* and was refused
C4_Witness ==
    \E c \in Calls, q \in Procs :
        /\ q # c[1] /\ dbUp /\ faults = 1 /\ _SCHEDULER_LEADER_CONN[q] = "dead"
        /\ thr[c[1]][c[2]].pc = "returned" /\ thr[c[1]][c[2]].lock = "false"
        /\ HoldsJobLease(q, thr[c[1]][c[2]].job)

\* C5: an invocation whose leadership check returned False has returned the
\* skip sentinel without asking for the job lock and without calling fn
C5_LeaderFirst ==
    \A c \in Calls :
        thr[c[1]][c[2]].leader = "false"
        => /\ thr[c[1]][c[2]].pc = "returned"
           /\ thr[c[1]][c[2]].lock = "none"
           /\ thr[c[1]][c[2]].fn = "none"
           /\ thr[c[1]][c[2]].ret = _JOB_SKIPPED

\* such an invocation, of a job whose lock nobody holds while the store is up
C5_Witness ==
    \E c \in Calls :
        /\ thr[c[1]][c[2]].leader = "false" /\ dbUp
        /\ ~KeyLocked(_job_lock_key(thr[c[1]][c[2]].job))
        /\ \A p \in Procs : _JOB_LOCKS[p][thr[c[1]][c[2]].job] = NoConn

\* C6: fn is invoked exactly in the invocations in which both checks
\* returned True; a refused job lock gives the skip sentinel; the outcome of
\* fn is what the wrapper returns
C6_BodyIffBoth ==
    \A c \in Calls :
        LET call == thr[c[1]][c[2]]
        IN  /\ (call.pc = "running" \/ call.fn # "none")
               <=> (call.leader = "true" /\ call.lock = "true")
            /\ call.lock = "false"
               => call.pc = "returned" /\ call.ret = _JOB_SKIPPED
            /\ call.pc = "returned" /\ call.lock = "true"
               => call.fn \in { "ok", "raised" } /\ call.ret = call.fn

\* a leader was refused the job lock and returned the skip sentinel
C6_Witness ==
    \E c \in Calls, q \in Procs :
        /\ thr[c[1]][c[2]].leader = "true" /\ thr[c[1]][c[2]].lock = "false"
        /\ thr[c[1]][c[2]].ret = _JOB_SKIPPED
        /\ q # c[1] /\ dbUp /\ _JOB_LOCKS[q][thr[c[1]][c[2]].job] = "lock"

\* C7: a load_schedules that runs with the rule table as it was at an earlier
\* complete run - of this process or of another one, whose timers before
\* the run were different - registers the same job ids as that run
C7_ReloadIdempotent ==
    [][\A p \in Procs :
         Reloads(p) /\ rules' = rules
         => \A q \in Procs : runs[q] > 0 => jobs'[p] = loadedJobs[q]]_vars

\* a process has completed two Reloads and another process one, with no
\* change of the rule table in between, a rule job being registered
C7_Witness ==
    \E p, q \in Procs :
        /\ p # q /\ runs[p] >= 2 /\ runs[q] >= 1
        /\ "rule_1" \in jobs[p]

C9_UnknownSkipped ==
    [][\A p \in Procs :
         Reloads(p)
         => /\ \A r \in DOMAIN rules' :
                  rules'[r].enabled
                  => (RuleJobId(r) \in jobs'[p]
                      <=> rules'[r].rule_name \in RULE_FUNCTIONS)
            /\ BuiltinJobs \subseteq jobs'[p]]_vars

\* a process has reloaded a table holding an enabled rule of unknown name
\* and an enabled rule of known name
C9_Witness ==
    \E p \in Procs, r, k \in DOMAIN rules :
        /\ runs[p] > 0
        /\ rules[r].enabled /\ rules[r].rule_name \notin RULE_FUNCTIONS
        /\ rules[k].enabled /\ rules[k].rule_name \in RULE_FUNCTIONS
        /\ RuleJobId(k) \in jobs[p] /\ RuleJobId(r) \notin jobs[p]
        /\ BuiltinJobs \subseteq jobs[p]

\* C10: a process that has reloaded never holds a lease - a connection in
\* its lease cache - for a job id that it does not schedule
C10_NoLeaseOutsideActive ==
    \A p \in Procs : \A j \in AllJobIds :
        _JOB_LOCKS[p][j] # NoConn => j \in jobs[p]

\* the Reload step itself leaves no lease for an id that is not registered
ReloadStepEvicts ==
    [][\A p \in Procs :
         Reloads(p)
         => \A j \in AllJobIds : j \notin jobs'[p] => _JOB_LOCKS'[p][j] = NoConn]_vars

\* the job ids derived from a rule table: one per enabled rule with a
\* registered name, and the built-ins
ExpectedJobs(table) ==
    { RuleJobId(r) : r \in { x \in DOMAIN table :
                               table[x].enabled /\ table[x].rule_name \in RULE_FUNCTIONS } }
    \cup BuiltinJobs

\* the listener of p takes a notification from conn.notifies in this step
Takes(p) ==
    /\ lpc[p] = "drain"
    /\ notifies[p] # << >>
    /\ notifies'[p] # notifies[p]

C12_Converges ==
    \A p \in Procs :
        (dbUp /\ ~_LISTENER_STOP[p] /\ due[p] = 0) => jobs[p] = ExpectedJobs(rules)

\* C13: a step of schedule_rules that commits a rule mutation - add, update,
\* delete, enable, disable or assign - hands the instance id of its process
\* to every session that listens on the channel
C13_MutationPublishes ==
    [][\A p \in Procs :
         Mutates(p)
         => \A q \in Procs :
              listening[q] => chan'[q] = Append(chan[q], _SCHEDULER_INSTANCE_ID(p))]_vars

\* C14: while the coordination store is unreachable, every
\* _ensure_scheduler_leader call returns False and leaves the process not
\* leader with no connection kept, and no process starts a job body
C14_FailClosed ==
    [][~dbUp =>
         \A c \in Calls :
             /\ (thr[c[1]][c[2]].pc = "idle" /\ thr'[c[1]][c[2]].pc # "idle")
                => /\ thr'[c[1]][c[2]].leader = "false"
                   /\ thr'[c[1]][c[2]].pc = "returned"
                   /\ ~_IS_SCHEDULER_LEADER'[c[1]]
                   /\ _SCHEDULER_LEADER_CONN'[c[1]] = NoConn
             /\ thr[c[1]][c[2]].pc # "running"
                => thr'[c[1]][c[2]].pc # "running"]_vars

\* C15: _ensure_scheduler_leader and _ensure_job_lock only try: a call made
\* while another process holds the lock completes and returns False, so no
\* thread is ever held up at a lock call by a lock another process holds
C15_TryOnly ==
    /\ [](\A c \in Calls :
            /\ thr[c[1]][c[2]].pc = "lock_try" => ENABLED JobLockTry(c[1], c[2])
            /\ \A j \in AllJobIds :
                   CanFire(c[1], c[2], j) => ENABLED Fire(c[1], c[2], j))
    /\ [][\A c \in Calls :
            LET call == thr[c[1]][c[2]]
                after == thr'[c[1]][c[2]]
            IN  /\ ( /\ call.pc = "idle" /\ after.pc # "idle"
                     /\ \E q \in Procs \ {c[1]} : _SCHEDULER_LEADER_CONN[q] = "lock" )
                   => after.leader = "false"
                /\ ( /\ call.pc = "lock_try" /\ after.pc # "lock_try"
                     /\ \E q \in Procs \ {c[1]} : _JOB_LOCKS[q][call.job] = "lock" )
                   => after.lock = "false"]_vars

\* one call of each kind has returned False in the same state, each refused
\* by a lock that another process holds
C15_Witness ==
    \E c \in Calls, d \in Calls :
        /\ dbUp /\ c[1] # d[1]
        /\ thr[c[1]][c[2]].pc = "returned" /\ thr[c[1]][c[2]].leader = "false"
        /\ _SCHEDULER_LEADER_CONN[d[1]] = "lock"
        /\ thr[d[1]][d[2]].pc = "returned" /\ thr[d[1]][d[2]].lock = "false"
        /\ _JOB_LOCKS[c[1]][thr[d[1]][d[2]].job] = "lock"

\* C19: when _listen_once raises (the session of the listener is lost, the
\* connection is refused, load_schedules raises) the listener thread sleeps
\* the backoff, goes back to the loop and subscribes again, however many
\* times it has raised before; the thread ends only with _LISTENER_STOP set
C19_ListenerRestarts ==
    /\ [](\A p \in Procs : lpc[p] = "exited" => _LISTENER_STOP[p])
    /\ [][\A p \in Procs :
            /\ crashes'[p] > crashes[p]
               => lpc'[p] = "sleep"
            /\ (lpc[p] = "sleep" /\ lpc'[p] # "sleep")
               => lpc'[p] = "loop"
            /\ (lpc[p] = "loop" /\ lpc'[p] # "loop" /\ ~_LISTENER_STOP[p] /\ dbUp)
               => lpc'[p] = "select" /\ listening'[p]]_vars
    /\ \A p \in Procs :
          [](lpc[p] = "sleep" => <>(listening[p] \/ ~dbUp \/ _LISTENER_STOP[p]))

\* a listener that has raised MaxCrashes times is subscribed again
C19_Witness ==
    \E p \in Procs :
        /\ crashes[p] = MaxCrashes /\ ~_LISTENER_STOP[p]
        /\ dbUp /\ listening[p] /\ lpc[p] = "select"

\* C16: in one process, over the invocations of notify_overdue_task_feedback
\* of one local date, send_hammerspoon_alert is called at most once for a
\* task id, and exactly once as soon as one of them has found the task
\* overdue; the notified set loses members only when the date read differs
\* from _NOTIFIED_DATE
C16_AlertOncePerDay ==
    /\ [](\A t \in TaskIds, d \in Days : alerts[t][d] <= 1)
    /\ [][/\ (npc = "loop" /\ npc' = "idle")
             => \A t \in rows : Overdue(t, clock.time) => alerts'[t][today] = 1
          /\ ~(_NOTIFIED_TASK_IDS \subseteq _NOTIFIED_TASK_IDS')
             => /\ clock.day # _NOTIFIED_DATE
                /\ _NOTIFIED_DATE' = clock.day
                /\ _NOTIFIED_TASK_IDS' = {}]_vars

\* two invocations of the same date have found the same task overdue and
\* open, and one alert has been sent for it
C16_Witness ==
    \E t \in TaskIds :
        /\ npc = "idle" /\ today = clock.day /\ invocations[today] >= 2
        /\ t \in OpenTasksOf(today) /\ todo_list[t].end_time = 0
        /\ alerts[t][today] = 1

\* the goals that are completed at least 72 hours before the run
CompletedAtLeast72h ==
    { g \in GoalIds :
        /\ long_term_goals[g].present /\ long_term_goals[g].completed
        /\ long_term_goals[g].completed_at # Null
        /\ long_term_goals[g].completed_at <= wall - ThreeDays }

\* the row of goal g with the field values it has in long_term_goals
SameFields(g) ==
    [ goal_id |-> g, user_id |-> long_term_goals[g].user_id,
      task_text |-> long_term_goals[g].task_text, priority |-> long_term_goals[g].priority,
      completed_at |-> long_term_goals[g].completed_at,
      time_spent |-> long_term_goals[g].time_spent ]

\* C17: a run in which the store refuses nothing moves every goal completed
\* at least 72 hours before it, also exactly 72 hours before it, to the
\* history table with the same field values, and leaves the others untouched
C17_MovesAtLeast72h ==
    [][(sweeps' = sweeps + 1 /\ failing'.insert = {} /\ failing'.delete = {})
         => \A g \in GoalIds :
              IF g \in CompletedAtLeast72h
              THEN /\ ~long_term_goals'[g].present
                   /\ SameFields(g) \in long_term_goals_his'
              ELSE /\ long_term_goals'[g] = long_term_goals[g]
                   /\ \A r \in long_term_goals_his' \ long_term_goals_his :
                          r.goal_id # g]_vars

\* C18: in a run in which the store refuses a statement of one row, every
\* other row the run has selected is moved to the history table
C18_OtherRowsMoved ==
    [][sweeps' = sweeps + 1
         => \A g \in SelectedBefore(wall - ThreeDays) :
              g \notin failing'.insert \cup failing'.delete
                => /\ ~long_term_goals'[g].present
                   /\ \E r \in long_term_goals_his' : r.goal_id = g]_vars

\* the jobs of list from position a on
From(list, a) == SubSeq(list, a, Len(list))

C23_ReloadKeepsScheduledLeases ==
    [][(thr' = thr /\ faults' = faults /\ dbUp' = dbUp)
         => \A p \in Procs : \A j \in jobs'[p] :
               _JOB_LOCKS'[p][j] = _JOB_LOCKS[p][j]]_vars

\* C24: after every load_schedules, also one in which reading the rule
\* table raises, the four built-in jobs are registered: no Reload leaves a
\* process without timers
C24_BuiltinsAfterEveryReload ==
    [][\A p \in Procs : jobs'[p] # jobs[p] => BuiltinJobs \subseteq jobs'[p]]_vars



\* ---- the lock functions and what they do with the store ----

\* _release_scheduler_leader, registered with atexit
ReleaseSchedulerLeader(p, close_raises) ==
    /\ LET r == _release_scheduler_leader(p, close_raises)
       IN  /\ _IS_SCHEDULER_LEADER' = [_IS_SCHEDULER_LEADER EXCEPT ![p] = r.leader]
           /\ _SCHEDULER_LEADER_CONN' = [_SCHEDULER_LEADER_CONN EXCEPT ![p] = r.conn]
           /\ last' = [ fn |-> "release", proc |-> p, io |-> r.io ]
    /\ UNCHANGED << dbUp, rules, nextId, jobs, _JOB_LOCKS, thr, faults, stmtFails >>

\* the store starts to fail the statements sent to it
StmtOutage ==
    /\ faults < MaxFaults
    /\ ~stmtFails
    /\ stmtFails' = TRUE
    /\ faults' = faults + 1
    /\ UNCHANGED << dbUp, rules, nextId, jobs, _IS_SCHEDULER_LEADER, _SCHEDULER_LEADER_CONN,
                    _JOB_LOCKS, thr, last >>

\* the store executes statements again
StmtRecover ==
    /\ stmtFails
    /\ stmtFails' = FALSE
    /\ UNCHANGED << lockVars, last >>

\* the rest of the state stands still
LeaseFrame ==
    UNCHANGED << history, user_rule_assignment, chan, listenVars, due, notifyVars, archiveVars,
                 added, noteVars, moreVars >>

\* a step that calls no lock function
NoLockCall == LeaseFrame /\ UNCHANGED leaseVars

\* triggers on one engine thread per process, the release at exit, faults
NextLease ==
    \/ \E p \in Procs, j \in AllJobIds :
          /\ Fire(p, 1, j)
          /\ last' = [ fn |-> "leader", proc |-> p, io |-> _ensure_scheduler_leader(p).io ]
          /\ UNCHANGED stmtFails /\ LeaseFrame
    \/ \E p \in Procs :
          /\ JobLockLookup(p, 1)
          /\ last' = IF JobLockCached(p, thr[p][1].job)
                     THEN [ fn |-> "job", proc |-> p, io |-> NoIo ]
                     ELSE last
          /\ UNCHANGED stmtFails /\ LeaseFrame
    \/ \E p \in Procs :
          /\ JobLockTry(p, 1)
          /\ last' = [ fn |-> "job", proc |-> p,
                        io |-> _ensure_job_lock(p, thr[p][1].job).io ]
          /\ UNCHANGED stmtFails /\ LeaseFrame
    \/ \E p \in Procs, o \in { "ok", "raised" } : FnReturn(p, 1, o) /\ NoLockCall
    \/ \E p \in Procs : LogJobEvent(p, 1) /\ NoLockCall
    \/ \E p \in Procs, c \in BOOLEAN : ReleaseSchedulerLeader(p, c) /\ LeaseFrame
    \/ \E p \in Procs : LoseLeaderConn(p) /\ NoLockCall
    \/ \E p \in Procs, j \in AllJobIds : LoseJobConn(p, j) /\ NoLockCall
    \/ DbOutage /\ NoLockCall
    \/ DbRecover /\ NoLockCall
    \/ StmtOutage /\ LeaseFrame
    \/ StmtRecover /\ LeaseFrame

SpecLease == Init /\ [][NextLease]_vars

\* ---- two rules whose job ids hash to one lock key ----

\* the rule table holds rule 1 and the rule whose job id collides with it
CollidingRules ==
    [ r \in { 1, CollidingRuleId } |->
        [ rule_name |-> "Rule disable all", enabled |-> TRUE ] ]

InitCollide ==
    /\ InitWith(CollidingRules, CollidingRuleId + 1, LoadedJobs({}, CollidingRules))
    /\ lpc = [ p \in Procs |-> "off" ]
    /\ InitBodies

\* triggers of the two rules and of the minute job, and sessions lost
NextCollide ==
    \/ \E p \in Procs, t \in Threads, j \in AllJobIds : Fire(p, t, j) /\ Unobserved
    \/ \E p \in Procs, t \in Threads : JobLockLookup(p, t) /\ Unobserved
    \/ \E p \in Procs, t \in Threads : JobLockTry(p, t) /\ Unobserved
    \/ \E p \in Procs, t \in Threads, o \in { "ok", "raised" } :
          FnReturn(p, t, o) /\ Unobserved
    \/ \E p \in Procs, t \in Threads : LogJobEvent(p, t) /\ Unobserved
    \/ \E p \in Procs, j \in AllJobIds : LoseJobConn(p, j) /\ Unobserved

SpecCollide == InitCollide /\ [][NextCollide]_vars

\* some process holds the backend lock of a job id other than job_id that has
\* the key of job_id
CollidingLeaseHeld(job_id) ==
    \E q \in Procs, k \in AllJobIds \ { job_id } :
        /\ _job_lock_key(k) = _job_lock_key(job_id)
        /\ _JOB_LOCKS[q][k] = "lock"

\* the call of _ensure_job_lock of thread t of process p returns True in
\* this step
JobLockReturnsTrue(p, t) ==
    /\ thr[p][t].pc \in { "job_lock", "lock_try" }
    /\ thr'[p][t].lock = "true"

\* C25: when two job ids have one lock key, a call of _ensure_job_lock for
\* one of them does not return True while the other holds the lease, in the
\* same process or in another one, and no two sessions hold the lock of one
\* key, so that no lease is granted on top of the lease of the colliding id.
C25_CollisionOnlyContends ==
    /\ [](\A p, q \in Procs : \A j, k \in AllJobIds :
            ( /\ << p, j >> # << q, k >>
              /\ _job_lock_key(j) = _job_lock_key(k)
              /\ _JOB_LOCKS[p][j] = "lock" )
            => _JOB_LOCKS[q][k] # "lock")
    /\ [][\A p \in Procs : \A t \in Threads :
            JobLockReturnsTrue(p, t) => ~CollidingLeaseHeld(thr[p][t].job)]_vars

\* C26: a call of _ensure_job_lock returns True only if the process holds
\* the backend lock of the key of the job at that moment, also after the
\* session of the cached lease was terminated on the backend.
C26_TrueOnlyWithBackendLock ==
    [][\A p \in Procs : \A t \in Threads :
          JobLockReturnsTrue(p, t) => _JOB_LOCKS'[p][thr[p][t].job] = "lock"]_vars

\* thread t of process p calls _ensure_scheduler_leader in this step
LeaderCall(p, t) == thr[p][t].pc = "idle" /\ thr'[p][t].pc # "idle"

\* C27: a call of _ensure_scheduler_leader that finds the cached leadership
\* connection dead drops it, and returns True only if the store is up and
\* its try-acquire on a fresh connection is granted the lock, which no other
\* process then holds; otherwise it returns False and keeps no lease.
C27_DeadLeaseDiscarded ==
    [][\A p \in Procs : \A t \in Threads :
          (LeaderCall(p, t) /\ _SCHEDULER_LEADER_CONN[p] = "dead") =>
             /\ thr'[p][t].leader = "true" =>
                   /\ dbUp
                   /\ \A q \in Procs \ { p } : _SCHEDULER_LEADER_CONN[q] # "lock"
                   /\ _SCHEDULER_LEADER_CONN'[p] = "lock"
                   /\ _IS_SCHEDULER_LEADER'[p]
             /\ thr'[p][t].leader = "false" =>
                   /\ _SCHEDULER_LEADER_CONN'[p] = NoConn
                   /\ ~_IS_SCHEDULER_LEADER'[p]]_vars

\* a process that held leadership, lost the session of it and has since
\* been answered False keeps no lease, while the other process leads
C27_Witness ==
    \E p \in Procs : \E q \in Procs \ { p } :
        /\ _SCHEDULER_LEADER_CONN[q] = "lock"
        /\ _SCHEDULER_LEADER_CONN[p] = NoConn /\ ~_IS_SCHEDULER_LEADER[p]
        /\ \E j \in AllJobIds : _JOB_LOCKS[p][j] # NoConn
        /\ \E t \in Threads : thr[p][t].leader = "false"

\* the leadership state of process p when the probe of its cached connection
\* is over: a connection found dead has been dropped
Probed(p) ==
    IF _IS_SCHEDULER_LEADER[p] /\ _SCHEDULER_LEADER_CONN[p] = "dead"
    THEN << FALSE, NoConn >>
    ELSE << _IS_SCHEDULER_LEADER[p], _SCHEDULER_LEADER_CONN[p] >>

\* C28: an attempt that fails, the lock being refused or the store raising,
\* returns False without raising, has closed the connection it opened, and
\* leaves the leadership state as the probe left it, or the lease cache as
\* it was; an attempt of _ensure_scheduler_leader that succeeds keeps the
\* connection that was granted the lock, unclosed.
C28_FailedAttemptLeavesNoTrace ==
    [][\A p \in Procs :
          /\ (LeaderCall(p, 1) /\ thr'[p][1].leader = "false") =>
                /\ ~last'.io.raised
                /\ last'.io.opened => last'.io.shut
                /\ << _IS_SCHEDULER_LEADER'[p], _SCHEDULER_LEADER_CONN'[p] >> = Probed(p)
                /\ \A q \in Procs \ { p } :
                      _SCHEDULER_LEADER_CONN'[q] = _SCHEDULER_LEADER_CONN[q]
          /\ (LeaderCall(p, 1) /\ thr'[p][1].leader = "true" /\ last'.io.opened) =>
                /\ ~last'.io.shut
                /\ _SCHEDULER_LEADER_CONN'[p] = "lock"
                /\ _IS_SCHEDULER_LEADER'[p]
          /\ (thr[p][1].pc = "lock_try" /\ thr'[p][1].lock = "false") =>
                /\ ~last'.io.raised
                /\ last'.io.opened => last'.io.shut
                /\ _JOB_LOCKS' = _JOB_LOCKS]_vars

\* a process has been refused the leadership lock, which the other one
\* holds, and has closed the connection it had opened
C28_Witness ==
    \E p \in Procs : \E q \in Procs \ { p } :
        /\ thr[p][1].pc = "returned" /\ thr[p][1].leader = "false"
        /\ last = [ fn |-> "leader", proc |-> p, io |-> Refused ]
        /\ _SCHEDULER_LEADER_CONN[q] = "lock"
        /\ _SCHEDULER_LEADER_CONN[p] = NoConn /\ ~_IS_SCHEDULER_LEADER[p]

\* C29: a try-acquire that succeeds stores the lease under the job id, and
\* a later call in the same process that finds the stored connection not
\* closed returns True without opening a connection or sending a lock
\* statement, the cache and the locks held at the backend staying as they
\* were.
C29_CachedLeaseReused ==
    [][\A p \in Procs :
          /\ (thr[p][1].pc = "lock_try" /\ thr'[p][1].lock = "true") =>
                _JOB_LOCKS'[p][thr[p][1].job] = "lock"
          /\ ( /\ thr[p][1].pc = "job_lock" /\ thr'[p][1].pc # "job_lock"
                /\ _JOB_LOCKS[p][thr[p][1].job] # NoConn ) =>
                /\ thr'[p][1].lock = "true"
                /\ last' = [ fn |-> "job", proc |-> p, io |-> NoIo ]
                /\ _JOB_LOCKS' = _JOB_LOCKS
                /\ _SCHEDULER_LEADER_CONN' = _SCHEDULER_LEADER_CONN]_vars

\* a process runs a job on the lease it had cached at an earlier trigger
C29_Witness ==
    \E p \in Procs :
        /\ thr[p][1].pc = "running" /\ thr[p][1].lock = "true"
        /\ last = [ fn |-> "job", proc |-> p, io |-> NoIo ]
        /\ _JOB_LOCKS[p][thr[p][1].job] = "lock"

\* process p calls _release_scheduler_leader in this step
ReleaseCall(p) ==
    /\ last'.fn = "release" /\ last'.proc = p
    /\ UNCHANGED << thr, faults, dbUp, stmtFails >>

\* C30: a call of _release_scheduler_leader does not raise, whether close()
\* fails or not, and leaves the process not leader and without leadership
\* connection; the lock it held is free for the try-acquire of another
\* process; a call by a process that is not leader and has no connection
\* changes nothing.
C30_ReleaseIdempotent ==
    [][\A p \in Procs :
          ReleaseCall(p) =>
             /\ ~last'.io.raised
             /\ ~_IS_SCHEDULER_LEADER'[p] /\ _SCHEDULER_LEADER_CONN'[p] = NoConn
             /\ _SCHEDULER_LEADER_CONN[p] = "lock" =>
                   \A q \in Procs \ { p } :
                       (dbUp /\ ~stmtFails) => (_ensure_scheduler_leader(q).ret)'
             /\ (~_IS_SCHEDULER_LEADER[p] /\ _SCHEDULER_LEADER_CONN[p] = NoConn) =>
                   UNCHANGED lockVars]_vars

\* a process that was leader has released leadership and the other process
\* has acquired it, no session having been lost
C30_Witness ==
    \E p \in Procs : \E q \in Procs \ { p } :
        /\ faults = 0
        /\ \E j \in AllJobIds : _JOB_LOCKS[p][j] # NoConn
        /\ ~_IS_SCHEDULER_LEADER[p] /\ _SCHEDULER_LEADER_CONN[p] = NoConn
        /\ _SCHEDULER_LEADER_CONN[q] = "lock"

\* ---- notesync: apply_sync_ops ----

\* the SQLAlchemy object of core/extensions.py: its session flushes pending
\* changes before each query
db == [ autoflush |-> TRUE ]

\* what a query of the request sees: the pending changes of its session too
Seen(sess) == IF db.autoflush THEN sess ELSE [ notes |-> notes, ops |-> note_sync_ops ]

\* _naive: None for None; dt.replace(tzinfo=None) keeps the wall-clock
\* reading and drops the offset
_naive(dt) == IF dt = NoStamp THEN Null ELSE dt.t

\* the instant of a payload datetime as a naive UTC reading, which is how
\* the stored datetimes are read (schemas.py, _serialize_datetime)
Utc(dt) == dt.t - dt.off

\* _max_timestamp of two values, None being Null
_max_timestamp(a, b) == IF a < b THEN b ELSE a

\* as Recorded, finding no idempotency record
NeverRecorded(sess, user_id, op_id) == FALSE

\* NoteSyncOp.query.filter_by(user_id=..., op_id=...).first() is not None
Recorded(sess, user_id, op_id) == << user_id, op_id >> \in Seen(sess).ops

\* Note.query.filter_by(id=..., user_id=...).first()
NoteQuery(sess, id, user_id) ==
    LET row == Seen(sess).notes[id]
    IN  IF row.present /\ row.user_id = user_id THEN row ELSE NoNote

\* _should_apply; the stored updated_at is naive
_should_apply(existing, incoming_ts) ==
    IF ~existing.present THEN TRUE ELSE existing.updated_at < incoming_ts

\* _apply_delete: the row of the note afterwards, the result, and whether a
\* new Note was added to the session
_apply_delete(existing, payload, user_id) ==
    LET incoming_ts == _max_timestamp(_naive(payload.updatedAt), _naive(payload.deletedAt))
        deleted_at == IF _naive(payload.deletedAt) # Null
                      THEN _naive(payload.deletedAt) ELSE incoming_ts
        existing_ts == IF existing.present
                       THEN _max_timestamp(existing.updated_at, existing.deleted_at)
                       ELSE Null
        should_apply == IF existing.present /\ incoming_ts # Null /\ existing_ts # Null
                        THEN existing_ts < incoming_ts
                        ELSE ~existing.present
    IN  IF ~should_apply
        THEN [ note |-> existing, result |-> "skipped", added |-> FALSE ]
        ELSE IF ~existing.present
        THEN [ note |-> [ present |-> TRUE, user_id |-> user_id,
                          text |-> payload.content.text,
                          is_pinned |-> payload.content.isPinned,
                          updated_at |-> incoming_ts, deleted_at |-> deleted_at ],
               result |-> "applied", added |-> TRUE ]
        ELSE [ note |-> [ existing EXCEPT !.updated_at = incoming_ts,
                                          !.deleted_at = deleted_at ],
               result |-> "applied", added |-> FALSE ]

\* _apply_upsert
_apply_upsert(existing, payload, user_id) ==
    LET incoming_ts == _naive(payload.updatedAt)
    IN  IF ~_should_apply(existing, incoming_ts)
        THEN [ note |-> existing, result |-> "skipped", added |-> FALSE ]
        ELSE IF ~existing.present
        THEN [ note |-> [ present |-> TRUE, user_id |-> user_id,
                          text |-> payload.content.text,
                          is_pinned |-> payload.content.isPinned,
                          updated_at |-> incoming_ts,
                          deleted_at |-> _naive(payload.deletedAt) ],
               result |-> "applied", added |-> TRUE ]
        ELSE [ note |-> [ existing EXCEPT !.text = payload.content.text,
                                          !.is_pinned = payload.content.isPinned,
                                          !.updated_at = incoming_ts,
                                          !.deleted_at = _naive(payload.deletedAt) ],
               result |-> "applied", added |-> FALSE ]

\* one turn of the loop of apply_sync_ops: the session afterwards, the
\* result appended, and whether the flush of a new Note raised because the
\* primary key is taken by the note of another user
SyncOp(sess, op, user_id) ==
    IF Recorded(sess, user_id, op.opId)
    THEN [ sess |-> sess, result |-> "skipped", raised |-> FALSE ]
    ELSE LET note == NoteQuery(sess, op.id, user_id)
             r == IF op.opType = "delete"
                  THEN _apply_delete(note, op, user_id)
                  ELSE _apply_upsert(note, op, user_id)
         IN  IF r.added /\ Seen(sess).notes[op.id].present
             THEN [ sess |-> sess, result |-> r.result, raised |-> TRUE ]
             ELSE [ sess |->
                      [ notes |-> IF r.note.present
                                  THEN [ sess.notes EXCEPT ![op.id] = r.note ]
                                  ELSE sess.notes,
                        ops |-> sess.ops \cup { << user_id, op.opId >> } ],
                    result |-> r.result, raised |-> FALSE ]

\* the loop of apply_sync_ops over ops, from the session sess
RECURSIVE SyncOps(_, _, _)
SyncOps(sess, ops, user_id) ==
    IF ops = << >>
    THEN [ sess |-> sess, raised |-> FALSE ]
    ELSE LET r == SyncOp(sess, Head(ops), user_id)
         IN  IF r.raised
             THEN [ sess |-> sess, raised |-> TRUE ]
             ELSE SyncOps(r.sess, Tail(ops), user_id)

\* apply_sync_ops on the committed tables: the tables committed when it
\* returns; nothing is committed when it raises
apply_sync_ops(tables, ops, user_id) ==
    LET r == SyncOps(tables, ops, user_id)
    IN  IF r.raised THEN tables ELSE r.sess

\* POST /notesync of user u: the request is validated, the loop begins
NotesyncBegin(u) ==
    /\ req = 0
    /\ req' = u
    /\ results' = << >>
    /\ UNCHANGED << notes, note_sync_ops, db_session >>

\* one turn of the loop; an exception ends the request and the session is
\* rolled back
NotesyncOp(op) ==
    /\ req # 0
    /\ Len(results) < MaxBatch
    /\ LET r == SyncOp(db_session, op, req)
       IN  IF r.raised
           THEN /\ db_session' = [ notes |-> notes, ops |-> note_sync_ops ]
                /\ req' = 0
                /\ results' = << >>
           ELSE /\ db_session' = r.sess
                /\ results' = Append(results, r.result)
                /\ req' = req
    /\ UNCHANGED << notes, note_sync_ops >>

\* db.session.commit() and return
NotesyncCommit ==
    /\ req # 0
    /\ notes' = db_session.notes
    /\ note_sync_ops' = db_session.ops
    /\ req' = 0
    /\ UNCHANGED << db_session, results >>

NotesFrame ==
    UNCHANGED << lockVars, history, user_rule_assignment, chan, listenVars, due, notifyVars,
                 archiveVars, added, leaseVars, moreVars >>

NextNotes ==
    \/ \E u \in Users : NotesyncBegin(u) /\ NotesFrame
    \/ \E op \in Ops : NotesyncOp(op) /\ NotesFrame
    \/ NotesyncCommit /\ NotesFrame

\* no note, no idempotency record, no request in flight
InitSync ==
    /\ InitWith(NoRules, 1, {})
    /\ lpc = [ p \in Procs |-> "off" ]
    /\ InitBodies

SpecNotes == InitSync /\ [][NextNotes]_vars

\* the ops of at most MaxBatch turns
Batches == UNION { [ 1..n -> Ops ] : n \in 0..MaxBatch }

\* C21: a create or update op meeting a note of its user is applied only if
\* its updatedAt is later than the updated_at stored, read as UTC like every
\* stored datetime; otherwise it is reported "skipped" and leaves the note as
\* it is; the updated_at of a committed note never decreases.
C21_AppliedOnlyIfLater ==
    /\ [](req # 0 =>
            \A op \in Ops :
                LET existing == NoteQuery(db_session, op.id, req)
                    r == SyncOp(db_session, op, req)
                    later == existing.updated_at < Utc(op.updatedAt)
                IN  (op.opType # "delete" /\ existing.present) =>
                       /\ r.result = "applied" => later
                       /\ ~later => /\ r.result = "skipped"
                                    /\ r.sess.notes = db_session.notes)
    /\ [][\A n \in NoteIds :
            notes[n].present =>
               /\ notes'[n].present
               /\ notes[n].updated_at <= notes'[n].updated_at]_vars

\* C22: an op whose opId is recorded for the user of the request is reported
\* "skipped" and leaves every note as it is, whatever it carries; applying a
\* batch a second time commits the notes the first time committed.
C22_RecordedOpSkipped ==
    /\ [](req # 0 =>
            \A op \in Ops :
                << req, op.opId >> \in db_session.ops =>
                    LET r == SyncOp(db_session, op, req)
                    IN  /\ r.result = "skipped"
                        /\ ~r.raised
                        /\ r.sess.notes = db_session.notes)
    /\ [](req = 0 =>
            \A u \in Users : \A ops \in Batches :
                LET tables == [ notes |-> notes, ops |-> note_sync_ops ]
                    once == apply_sync_ops(tables, ops, u)
                IN  apply_sync_ops(once, ops, u).notes = once.notes)

\* every opId is recorded for the user of the request and the op the loop
\* has gone through was skipped
C22_Witness ==
    /\ req # 0
    /\ \A o \in OpIds : << req, o >> \in note_sync_ops
    /\ results = << "skipped" >>
    /\ db_session.notes = notes


\* ---- load_schedules step by step, called by request threads and listener ----

\* as LoadSchedulesLockFree, entering whoever holds the lock
LockIgnored(p) == TRUE

\* `with _LOAD_SCHEDULES_LOCK:` can be entered
LoadSchedulesLockFree(p) == _LOAD_SCHEDULES_LOCK[p] = NoCaller

\* thread c of process p is inside the with block of load_schedules
InLoadSchedules(p, c) == rl[p][c].pc \in { "clear", "read", "register", "release" }

\* the rows fetched, as a rule table
AsTable(fetched) ==
    [ r \in DOMAIN fetched |-> [ rule_name |-> fetched[r], enabled |-> TRUE ] ]

\* the requests that have committed and not yet published
Publishing == { x \in Procs \X Requests : rl[x[1]][x[2]].pc # "idle" }

\* schedule_rules, actions "enable" and "disable", up to conn.commit()
RequestCommit(p, c, rule_id, enabled) ==
    /\ c \in Requests /\ rl[p][c].pc = "idle"
    /\ dbUp
    /\ rule_id \in DOMAIN rules
    /\ \A q \in Procs :
          Len(chan[q]) + Len(notifies[q]) + Cardinality(Publishing) < MaxPending
    /\ rules' = [rules EXCEPT ![rule_id].enabled = enabled]
    /\ rl' = [rl EXCEPT ![p][c].pc = "acquire"]
    /\ UNCHANGED << dbUp, nextId, jobs, _IS_SCHEDULER_LEADER, _SCHEDULER_LEADER_CONN, _JOB_LOCKS,
                    thr, faults, chan, listenVars, _LOAD_SCHEDULES_LOCK, timers >>

\* the inner loop of _listen_once: one message of conn.notifies, up to the
\* call of load_schedules
ListenTake(p) ==
    /\ lpc[p] = "drain" /\ rl[p][Listener].pc = "idle"
    /\ notifies[p] # << >>
    /\ notifies' = [notifies EXCEPT ![p] = Tail(notifies[p])]
    /\ rl' = [rl EXCEPT ![p][Listener].pc =
                 IF ListenerCallsReload(p, Head(notifies[p])) THEN "acquire" ELSE "idle"]
    /\ UNCHANGED << lockVars, chan, lpc, listening, _LISTENER_STOP, crashes,
                    _LOAD_SCHEDULES_LOCK, timers >>

\* load_schedules: `with _LOAD_SCHEDULES_LOCK:` is entered
LoadAcquire(p, c) ==
    /\ rl[p][c].pc = "acquire"
    /\ LoadSchedulesLockFree(p)
    /\ _LOAD_SCHEDULES_LOCK' = [_LOAD_SCHEDULES_LOCK EXCEPT ![p] = c]
    /\ rl' = [rl EXCEPT ![p][c].pc = "clear"]
    /\ UNCHANGED << lockVars, chan, listenVars, timers >>

\* load_schedules: scheduler.remove_all_jobs() and active_job_ids = set()
LoadClear(p, c) ==
    /\ rl[p][c].pc = "clear"
    /\ timers' = [timers EXCEPT ![p] = {}]
    /\ jobs' = [jobs EXCEPT ![p] = RemoveAllJobs(jobs[p])]
    /\ rl' = [rl EXCEPT ![p][c].pc = "read", ![p][c].active_job_ids = {}]
    /\ UNCHANGED << dbUp, rules, nextId, _IS_SCHEDULER_LEADER, _SCHEDULER_LEADER_CONN, _JOB_LOCKS,
                    thr, faults, chan, listenVars, _LOAD_SCHEDULES_LOCK >>

\* load_schedules: get_db_connection, the SELECT and fetchall
LoadRead(p, c) ==
    /\ rl[p][c].pc = "read"
    /\ dbUp
    /\ rl' = [rl EXCEPT ![p][c].pc = "register", ![p][c].fetched = Rows(rules)]
    /\ UNCHANGED << lockVars, chan, listenVars, _LOAD_SCHEDULES_LOCK, timers >>

\* load_schedules: get_db_connection raises; the with statement releases the
\* lock and the exception leaves load_schedules, and _listen_once through
\* its finally clause if the listener made the call
LoadReadRaises(p, c) ==
    /\ rl[p][c].pc = "read"
    /\ ~dbUp
    /\ _LOAD_SCHEDULES_LOCK' = [_LOAD_SCHEDULES_LOCK EXCEPT ![p] = NoCaller]
    /\ rl' = [rl EXCEPT ![p][c] = NotLoading]
    /\ IF c = Listener
       THEN /\ notifies' = [notifies EXCEPT ![p] = << >>]
            /\ chan' = [chan EXCEPT ![p] = << >>]
            /\ listening' = [listening EXCEPT ![p] = FALSE]
            /\ lpc' = [lpc EXCEPT ![p] = AfterListenerRaises(p)]
       ELSE UNCHANGED << notifies, chan, listening, lpc >>
    /\ UNCHANGED << lockVars, _LISTENER_STOP, crashes, timers >>

\* load_schedules: the rule loop and the four add_job calls after it
LoadRegister(p, c) ==
    /\ rl[p][c].pc = "register"
    /\ LET new == RuleTimers(rl[p][c].fetched) \cup BuiltinTimers
           kept == { t \in timers[p] : \A n \in new : n.id # t.id }
       IN  /\ timers' = [timers EXCEPT ![p] = kept \cup new]
           /\ jobs' = [jobs EXCEPT ![p] = { t.id : t \in kept \cup new }]
    /\ rl' = [rl EXCEPT ![p][c].pc = "release",
                 ![p][c].active_job_ids = ActiveJobIds(AsTable(rl[p][c].fetched))]
    /\ UNCHANGED << dbUp, rules, nextId, _IS_SCHEDULER_LEADER, _SCHEDULER_LEADER_CONN, _JOB_LOCKS,
                    thr, faults, chan, listenVars, _LOAD_SCHEDULES_LOCK >>

\* load_schedules: _release_unused_job_locks, and the with block is left; a
\* request thread goes on to notify_schedule_change, the listener to its loop
LoadRelease(p, c) ==
    /\ rl[p][c].pc = "release"
    /\ _JOB_LOCKS' =
         [_JOB_LOCKS EXCEPT ![p] = _release_unused_job_locks(p, rl[p][c].active_job_ids)]
    /\ _LOAD_SCHEDULES_LOCK' = [_LOAD_SCHEDULES_LOCK EXCEPT ![p] = NoCaller]
    /\ rl' = [rl EXCEPT ![p][c] =
                 [ NotLoading EXCEPT !.pc = IF c = Listener THEN "idle" ELSE "notify" ]]
    /\ UNCHANGED << dbUp, rules, nextId, jobs, _IS_SCHEDULER_LEADER, _SCHEDULER_LEADER_CONN,
                    thr, faults, chan, listenVars, timers >>

\* schedule_rules: notify_schedule_change() after load_schedules
RequestNotify(p, c) ==
    /\ rl[p][c].pc = "notify"
    /\ notify_schedule_change(p)
    /\ rl' = [rl EXCEPT ![p][c].pc = "idle"]
    /\ UNCHANGED << lockVars, listenVars, _LOAD_SCHEDULES_LOCK, timers >>

\* the rest of the state stands still
MutexFrame ==
    UNCHANGED << history, user_rule_assignment, due, notifyVars, archiveVars, added,
                 leaseVars, noteVars, raised, stoppedAt, standby, execVars >>

\* a step of the listener outside load_schedules
ListenerIdle(p) == rl[p][Listener].pc = "idle" /\ MutexFrame /\ UNCHANGED mutexVars

\* rule 1 enabled and disabled by the request threads of every process, the
\* listeners, and the store going down and coming back
NextMutex ==
    \/ \E p \in Procs, c \in Requests, e \in BOOLEAN :
          RequestCommit(p, c, 1, e) /\ MutexFrame
    \/ \E p \in Procs : ListenTake(p) /\ MutexFrame
    \/ \E p \in Procs, c \in Callers : LoadAcquire(p, c) /\ MutexFrame
    \/ \E p \in Procs, c \in Callers : LoadClear(p, c) /\ MutexFrame
    \/ \E p \in Procs, c \in Callers : LoadRead(p, c) /\ MutexFrame
    \/ \E p \in Procs, c \in Callers : LoadReadRaises(p, c) /\ MutexFrame
    \/ \E p \in Procs, c \in Callers : LoadRegister(p, c) /\ MutexFrame
    \/ \E p \in Procs, c \in Callers : LoadRelease(p, c) /\ MutexFrame
    \/ \E p \in Procs, c \in Requests : RequestNotify(p, c) /\ MutexFrame
    \/ \E p \in Procs : ListenConnect(p) /\ ListenerIdle(p) /\ UNCHANGED crashes
    \/ \E p \in Procs : ListenWake(p) /\ ListenerIdle(p) /\ UNCHANGED crashes
    \/ \E p \in Procs : ListenDrained(p) /\ ListenerIdle(p) /\ UNCHANGED crashes
    \/ \E p \in Procs : ListenBroken(p) /\ ListenerIdle(p) /\ UNCHANGED crashes
    \/ \E p \in Procs : ListenSleep(p) /\ ListenerIdle(p) /\ UNCHANGED crashes
    \/ DbOutage /\ MutexFrame /\ UNCHANGED << notifies, lpc, _LISTENER_STOP, crashes, mutexVars >>
    \/ DbRecover /\ MutexFrame /\ UNCHANGED << chan, listenVars, mutexVars >>

SpecMutex == InitListen /\ [][NextMutex]_vars

\* C31: in one process at most one thread is inside the with block of
\* load_schedules, whether request thread or listener, and it is the one
\* that holds the lock; so the timers a call has registered when it comes
\* to release the unused leases are those of the rows it has read itself,
\* with nothing of another call in between
C31_ReloadsExclusive ==
    \A p \in Procs :
        /\ \A c, d \in Callers :
              InLoadSchedules(p, c) /\ InLoadSchedules(p, d) => c = d
        /\ \A c \in Callers :
              /\ InLoadSchedules(p, c) <=> _LOAD_SCHEDULES_LOCK[p] = c
              /\ rl[p][c].pc = "read" => jobs[p] = {}
              /\ rl[p][c].pc = "release"
                 => jobs[p] = LoadedJobs({}, AsTable(rl[p][c].fetched))

\* the listener of a process is between its read and its register while two
\* request threads of the same process wait at the lock
C31_Witness ==
    \E p \in Procs :
        /\ rl[p][Listener].pc = "register"
        /\ \A c \in Requests : rl[p][c].pc = "acquire"

\* C32: every timer of the engine holds the closure _wrapped made by
\* _wrap_job for the id of the timer itself, over the job body of that id,
\* and never the body; the four built-ins are among them after a Reload
C32_TimersWrapped ==
    \A p \in Procs :
        /\ \A t \in timers[p] :
              /\ t.callback.wrapper = "_wrapped"
              /\ t.callback.job_id = t.id
              /\ t.callback.func \in RULE_FUNCTIONS \cup BuiltinJobs
              /\ t.id \in BuiltinJobs => t.callback.func = t.id
        /\ jobs[p] = { t.id : t \in timers[p] }
        /\ \A c \in Callers :
              rl[p][c].pc = "release" => BuiltinJobs \subseteq { t.id : t \in timers[p] }

\* a process has reloaded the table with rule 1 enabled: five timers, the
\* one of rule_1 wrapped for "rule_1" over the function of its rule name
C32_Witness ==
    \E p \in Procs, c \in Requests :
        /\ rl[p][c].pc = "notify"
        /\ Cardinality(timers[p]) = 5
        /\ [ id |-> "rule_1", callback |-> [ wrapper |-> "_wrapped", job_id |-> "rule_1",
                                             func |-> "Rule disable all" ] ] \in timers[p]


\* ---- a job body that raises ----

RaiseFrame ==
    UNCHANGED << history, user_rule_assignment, chan, listenVars, due, notifyVars, archiveVars,
                 added, leaseVars, noteVars, mutexVars, stoppedAt, standby, execVars >>

\* triggers on one engine thread per process, bodies that return and bodies
\* that raise, and sessions lost
NextRaise ==
    \/ \E p \in Procs, j \in AllJobIds : Fire(p, 1, j) /\ RaiseFrame /\ UNCHANGED raised
    \/ \E p \in Procs : JobLockLookup(p, 1) /\ RaiseFrame /\ UNCHANGED raised
    \/ \E p \in Procs : JobLockTry(p, 1) /\ RaiseFrame /\ UNCHANGED raised
    \/ \E p \in Procs, o \in { "ok", "raised" } :
          /\ FnReturn(p, 1, o) /\ RaiseFrame
          /\ raised' = [raised EXCEPT ![p] =
                           IF o = "raised" THEN @ \cup { thr[p][1].job } ELSE @]
    \/ \E p \in Procs : LogJobEvent(p, 1) /\ RaiseFrame /\ UNCHANGED raised
    \/ \E p \in Procs : LoseLeaderConn(p) /\ RaiseFrame /\ UNCHANGED raised
    \/ \E p \in Procs, j \in AllJobIds : LoseJobConn(p, j) /\ RaiseFrame /\ UNCHANGED raised

SpecRaise == Init /\ [][NextRaise]_vars

\* the body of the call of thread 1 of process p raises in this step
BodyRaises(p) == thr[p][1].pc = "running" /\ thr'[p][1].fn = "raised"

\* C33: when the body raises, the wrapped callable raises what the body
\* raised, leadership and the leases of the process are left as they were
\* and the timer stays registered; once the engine thread is free a trigger
\* of that job can run the checks again
C33_RaiseLeavesStateAndTimer ==
    /\ [][\A p \in Procs :
            BodyRaises(p)
            => /\ thr'[p][1].pc = "returned" /\ thr'[p][1].ret = "raised"
               /\ _IS_SCHEDULER_LEADER' = _IS_SCHEDULER_LEADER
               /\ _SCHEDULER_LEADER_CONN' = _SCHEDULER_LEADER_CONN
               /\ _JOB_LOCKS' = _JOB_LOCKS
               /\ jobs' = jobs]_vars
    /\ [](\A p \in Procs : \A j \in raised[p] :
            /\ j \in jobs[p]
            /\ thr[p][1].pc = "idle" => ENABLED Fire(p, 1, j))

\* the body of a job that has raised before in this process is running
\* again, under the lease the process already had
C33_Witness ==
    \E p \in Procs :
        /\ thr[p][1].pc = "running" /\ thr[p][1].job \in raised[p]
        /\ thr[p][1].leader = "true" /\ thr[p][1].lock = "true"


\* ---- the listener thread and the stop flag, test by test ----

\* as StopIsSet, the flag never being seen
StopNeverSeen(p) == FALSE

\* _LISTENER_STOP.is_set()
StopIsSet(p) == _LISTENER_STOP[p]

\* _listen_for_schedule_changes: the test of its while loop; the thread ends
\* or goes on to call _listen_once
ListenForChangesTest(p) ==
    /\ lpc[p] = "loop"
    /\ lpc' = [lpc EXCEPT ![p] = IF StopIsSet(p) THEN "exited" ELSE "call"]
    /\ UNCHANGED << lockVars, chan, notifies, listening, _LISTENER_STOP >>

\* _listen_once: get_db_connection and LISTEN, or get_db_connection raises
ListenOnceConnect(p) ==
    /\ lpc[p] = "call"
    /\ IF dbUp
       THEN /\ lpc' = [lpc EXCEPT ![p] = "select"]
            /\ listening' = [listening EXCEPT ![p] = TRUE]
       ELSE lpc' = [lpc EXCEPT ![p] = AfterListenerRaises(p)] /\ UNCHANGED listening
    /\ UNCHANGED << lockVars, chan, notifies, _LISTENER_STOP >>

\* _listen_once: the test of its while loop; with the flag set the loop ends
\* and the finally clause closes the connection
ListenOnceTest(p) ==
    /\ lpc[p] = "select"
    /\ IF StopIsSet(p)
       THEN /\ lpc' = [lpc EXCEPT ![p] = "loop"]
            /\ listening' = [listening EXCEPT ![p] = FALSE]
            /\ chan' = [chan EXCEPT ![p] = << >>]
       ELSE /\ lpc' = [lpc EXCEPT ![p] = "wait"]
            /\ UNCHANGED << listening, chan >>
    /\ UNCHANGED << lockVars, notifies, _LISTENER_STOP >>

\* _listen_once: select.select with its timeout of one second, and
\* conn.poll(): the session is gone and the call raises, nothing has arrived
\* and the loop continues, or what has arrived is moved to conn.notifies
ListenOnceSelect(p) ==
    /\ lpc[p] = "wait"
    /\ IF ~listening[p]
       THEN /\ lpc' = [lpc EXCEPT ![p] = AfterListenerRaises(p)]
            /\ UNCHANGED << notifies, chan >>
       ELSE IF chan[p] = << >>
       THEN /\ lpc' = [lpc EXCEPT ![p] = "select"]
            /\ UNCHANGED << notifies, chan >>
       ELSE /\ notifies' = [notifies EXCEPT ![p] = notifies[p] \o chan[p]]
            /\ chan' = [chan EXCEPT ![p] = << >>]
            /\ lpc' = [lpc EXCEPT ![p] = "drain"]
    /\ UNCHANGED << lockVars, listening, _LISTENER_STOP >>

\* the steps of the listener thread of p, test by test
ListenerThread(p) ==
    \/ ListenForChangesTest(p)
    \/ ListenOnceConnect(p)
    \/ ListenOnceTest(p)
    \/ ListenOnceSelect(p)
    \/ ListenPop(p)
    \/ ListenDrained(p)
    \/ ListenSleep(p)

StopFrame ==
    UNCHANGED << history, user_rule_assignment, due, crashes, notifyVars, archiveVars, added,
                 leaseVars, noteVars, mutexVars, raised, standby, execVars >>

\* the listeners with the stop flag set at any point of their loops;
\* process 1 enables and disables rule 1 to give them notifications, sessions
\* end and the store goes down
NextStop ==
    \/ \E e \in BOOLEAN :
          ChanRoom /\ ScheduleRulesSetEnabled(1, 1, e) /\ StopFrame
            /\ UNCHANGED << notifies, lpc, listening, _LISTENER_STOP, stoppedAt >>
    \/ \E p \in Procs : ListenForChangesTest(p) /\ StopFrame /\ UNCHANGED stoppedAt
    \/ \E p \in Procs : ListenOnceConnect(p) /\ StopFrame /\ UNCHANGED stoppedAt
    \/ \E p \in Procs : ListenOnceTest(p) /\ StopFrame /\ UNCHANGED stoppedAt
    \/ \E p \in Procs : ListenOnceSelect(p) /\ StopFrame /\ UNCHANGED stoppedAt
    \/ \E p \in Procs : ListenPop(p) /\ StopFrame /\ UNCHANGED stoppedAt
    \/ \E p \in Procs : ListenDrained(p) /\ StopFrame /\ UNCHANGED stoppedAt
    \/ \E p \in Procs : ListenSleep(p) /\ StopFrame /\ UNCHANGED stoppedAt
    \/ \E p \in Procs :
          /\ StopScheduleListener(p) /\ StopFrame
          /\ stoppedAt' = [stoppedAt EXCEPT ![p] = lpc[p]]
    \/ \E p \in Procs : LoseListenConn(p) /\ StopFrame /\ UNCHANGED stoppedAt
    \/ DbOutage /\ StopFrame /\ UNCHANGED << notifies, lpc, _LISTENER_STOP, stoppedAt >>
    \/ DbRecover /\ StopFrame
         /\ UNCHANGED << chan, notifies, lpc, listening, _LISTENER_STOP, stoppedAt >>

\* the listener thread is a running thread: it goes on whenever it can
SpecStop ==
    /\ InitListen
    /\ [][NextStop]_vars
    /\ \A p \in Procs : WF_vars(ListenerThread(p) /\ StopFrame /\ UNCHANGED stoppedAt)

\* C34: once _LISTENER_STOP is set the listener thread ends. The loop of
\* _listen_once ends at its next test, closing the connection; the loop of
\* _listen_for_schedule_changes calls _listen_once no more once it has
\* tested the flag; a thread stopped in its backoff or before that test
\* subscribes no more; a thread that has ended stays ended
C34_StopEndsListener ==
    /\ \A p \in Procs : [](_LISTENER_STOP[p] => <>(lpc[p] = "exited"))
    /\ [][\A p \in Procs :
            /\ (_LISTENER_STOP[p] /\ lpc[p] = "select" /\ lpc'[p] # "select")
               => lpc'[p] = "loop" /\ ~listening'[p]
            /\ (_LISTENER_STOP[p] /\ lpc[p] = "loop" /\ lpc'[p] # "loop")
               => lpc'[p] = "exited"
            /\ stoppedAt[p] \in { "sleep", "loop", "exited" } => ~listening'[p]
            /\ lpc[p] = "exited" => lpc'[p] = "exited" /\ ~listening'[p]
            /\ _LISTENER_STOP[p] => _LISTENER_STOP'[p]]_vars

\* a listener whose stop was signaled during the backoff has ended, the
\* store being up
C34_Witness ==
    \E p \in Procs :
        /\ stoppedAt[p] = "sleep" /\ lpc[p] = "exited" /\ dbUp /\ ~listening[p]


\* ---- process shutdown ----

\* the exit handlers of process p, in the order atexit runs them (last
\* registered first): _release_scheduler_leader, then _stop_schedule_listener;
\* the engine threads of p are idle
AtExit(p, close_raises) ==
    /\ ~_LISTENER_STOP[p]
    /\ \A t \in Threads : thr[p][t].pc = "idle"
    /\ LET r == _release_scheduler_leader(p, close_raises)
       IN  /\ _IS_SCHEDULER_LEADER' = [_IS_SCHEDULER_LEADER EXCEPT ![p] = r.leader]
           /\ _SCHEDULER_LEADER_CONN' = [_SCHEDULER_LEADER_CONN EXCEPT ![p] = r.conn]
    /\ _LISTENER_STOP' = [_LISTENER_STOP EXCEPT ![p] = TRUE]
    /\ UNCHANGED << dbUp, rules, nextId, jobs, _JOB_LOCKS, thr, faults >>

\* the exit handlers of process p have run
HandlersHaveRun(p) == _LISTENER_STOP[p]

ExitFrame ==
    UNCHANGED << history, user_rule_assignment, chan, notifies, lpc, listening, crashes, due,
                 bodyVars >>

\* triggers on one engine thread of the processes that are not shutting
\* down, and the shutdown of a process
NextExit ==
    \/ \E p \in Procs, j \in AllJobIds :
          ~HandlersHaveRun(p) /\ Fire(p, 1, j) /\ ExitFrame /\ UNCHANGED _LISTENER_STOP
    \/ \E p \in Procs : JobLockLookup(p, 1) /\ ExitFrame /\ UNCHANGED _LISTENER_STOP
    \/ \E p \in Procs : JobLockTry(p, 1) /\ ExitFrame /\ UNCHANGED _LISTENER_STOP
    \/ \E p \in Procs, o \in { "ok", "raised" } :
          FnReturn(p, 1, o) /\ ExitFrame /\ UNCHANGED _LISTENER_STOP
    \/ \E p \in Procs : LogJobEvent(p, 1) /\ ExitFrame /\ UNCHANGED _LISTENER_STOP
    \/ \E p \in Procs, c \in BOOLEAN : AtExit(p, c) /\ ExitFrame

SpecExit == Init /\ [][NextExit]_vars

\* C35: a process whose exit handlers have run holds neither the leadership
\* lease nor a job lease: it is not leader and keeps no connection, neither
\* the leadership connection nor one in its lease cache, so that no lock is
\* held by a session of it
C35_ExitReleasesAll ==
    \A p \in Procs :
        HandlersHaveRun(p)
        => /\ ~_IS_SCHEDULER_LEADER[p] /\ _SCHEDULER_LEADER_CONN[p] = NoConn
           /\ \A j \in AllJobIds : _JOB_LOCKS[p][j] = NoConn


\* ---- notify_overdue_task_feedback across processes ----

\* leadership, or the lease of the job, passes to the other process between
\* two invocations: the job now runs over the module state of that process
LeadershipMoves ==
    /\ npc = "idle"
    /\ _NOTIFIED_DATE' = standby._NOTIFIED_DATE
    /\ _NOTIFIED_TASK_IDS' = standby._NOTIFIED_TASK_IDS
    /\ standby' = [ _NOTIFIED_DATE |-> _NOTIFIED_DATE, _NOTIFIED_TASK_IDS |-> _NOTIFIED_TASK_IDS ]
    /\ UNCHANGED << clock, todo_list, npc, today, rows, alerts, invocations >>

\* the process that runs the job is restarted between two invocations: the
\* module is imported again
ProcessRestarts ==
    /\ npc = "idle"
    /\ _NOTIFIED_DATE' = AtImport._NOTIFIED_DATE
    /\ _NOTIFIED_TASK_IDS' = AtImport._NOTIFIED_TASK_IDS
    /\ UNCHANGED << clock, todo_list, npc, today, rows, alerts, invocations, standby >>

HandoverFrame ==
    UNCHANGED << lockVars, history, user_rule_assignment, chan, listenVars, due, archiveVars,
                 added, leaseVars, noteVars, mutexVars, raised, stoppedAt, execVars >>

\* the invocations of the job, in whichever process is entitled to run it
NextHandover ==
    \/ NotifyBegin /\ HandoverFrame /\ UNCHANGED standby
    \/ NotifyQuery /\ HandoverFrame /\ UNCHANGED standby
    \/ NotifyLoop /\ HandoverFrame /\ UNCHANGED standby
    \/ Tick /\ HandoverFrame /\ UNCHANGED standby
    \/ \E t \in TaskIds : GiveFeedback(t) /\ HandoverFrame /\ UNCHANGED standby
    \/ LeadershipMoves /\ HandoverFrame
    \/ ProcessRestarts /\ HandoverFrame

\* every task is of day 1, open, and ends at time 0; no invocation yet
InitHandover ==
    /\ InitWith(NoRules, 1, {})
    /\ lpc = [ p \in Procs |-> "off" ]
    /\ InitBodies

SpecHandover == InitHandover /\ [][NextHandover]_vars

\* C36: over the invocations of all processes, send_hammerspoon_alert is
\* called at most once for a task id on one local date, also when the job
\* passes from one process to another or its process restarts
C36_AlertOnceAcrossProcesses ==
    \A t \in TaskIds, d \in Days : alerts[t][d] <= 1


\* ---- triggers that keep coming, across a leadership handover ----

\* the steps of a call on the engine thread of p, once it has begun
CallGoesOn(p) ==
    \/ JobLockLookup(p, 1)
    \/ JobLockTry(p, 1)
    \/ \E o \in { "ok", "raised" } : FnReturn(p, 1, o)
    \/ LogJobEvent(p, 1)

\* triggers on one engine thread per process; the session of a leadership
\* connection can end
NextTakeover ==
    \/ \E p \in Procs, j \in AllJobIds : Fire(p, 1, j) /\ Unobserved
    \/ \E p \in Procs : JobLockLookup(p, 1) /\ Unobserved
    \/ \E p \in Procs : JobLockTry(p, 1) /\ Unobserved
    \/ \E p \in Procs, o \in { "ok", "raised" } : FnReturn(p, 1, o) /\ Unobserved
    \/ \E p \in Procs : LogJobEvent(p, 1) /\ Unobserved
    \/ \E p \in Procs : LoseLeaderConn(p) /\ Unobserved

\* the engine thread goes on whenever it can, and the timer of every
\* registered job elapses again and again (cron and interval triggers)
SpecTakeover ==
    /\ Init
    /\ [][NextTakeover]_vars
    /\ \A p \in Procs : WF_vars(CallGoesOn(p) /\ Unobserved)
    /\ \A p \in Procs : \A j \in FiringJobs : SF_vars(Fire(p, 1, j) /\ Unobserved)

\* C37: a process that holds leadership, also one that took it over from a
\* leader whose leadership session ended, comes to execute every job that
\* stays registered, or loses leadership; and no process keeps the lease of
\* a job for ever while another process holds leadership
C37_NotSkippedForever ==
    \A q \in Procs : \A j \in { "rule_1", "notify_overdue_task_feedback" } :
        /\ [](HoldsLeadership(q) => <>(Executing(q, j) \/ ~HoldsLeadership(q)))
        /\ \A p \in Procs \ { q } :
              ~<>[](HoldsLeadership(q) /\ HoldsJobLease(p, j))


\* ---- a change published while a listener is not subscribed ----

\* a step of the listener thread of p, with the history of its notifications
ListenerMoves(p) ==
    \/ /\ \/ ListenConnect(p)
          \/ ListenWake(p)
          \/ ListenDrained(p)
          \/ ListenBroken(p)
          \/ ListenSleep(p)
       /\ ListenFrame /\ UNCHANGED due
    \/ ListenPop(p) /\ ListenFrame /\ Taken(p)

\* the change notification protocol, the listener threads going on whenever
\* they can
SpecMissed ==
    /\ InitListen
    /\ [][NextListen]_vars
    /\ \A p \in Procs : WF_vars(ListenerMoves(p))

\* C38: when the notification of the last change of the rule table did not
\* reach the listener of a process - it was published while the listener
\* was not subscribed, or was lost with a Reload that raised - then, once the
\* listener is subscribed again, the process comes to hold the job ids
\* derived from the rule table, with no further change needed
C38_MissedChangeReflected ==
    \A p \in Procs :
        []((due[p] = -1 /\ listening[p])
             => <>(jobs[p] = ExpectedJobs(rules) \/ ~listening[p]))


\* ---- archive_completed_tasks: a row is in one table ----

\* goal g has a row in the history table his
Archived(his, g) == \E r \in his : r.goal_id = g

\* C39: after a run of archive_completed_tasks every goal that was in the
\* active table before the run is in exactly one of the active table and the
\* history table, also when the store has refused the INSERT or the DELETE
\* of some row of the run
C39_InExactlyOneTable ==
    [][sweeps' = sweeps + 1
         => \A g \in GoalIds :
              long_term_goals[g].present
                => (long_term_goals'[g].present # Archived(long_term_goals_his', g))]_vars

\* a run in which the store has refused the DELETE of a row fetched after a
\* row that was moved: the refused row is in the active table only, the
\* moved one in the history table only
C39_Witness ==
    /\ sweeps >= 1
    /\ \E g \in failing.delete, h \in GoalIds :
          /\ h # g
          /\ long_term_goals[g].present /\ ~Archived(long_term_goals_his, g)
          /\ ~long_term_goals[h].present /\ Archived(long_term_goals_his, h)

\* ---- exec_rules: the rule-execution lock ----

RULE_EXEC_COOLDOWN_SECONDS == 30

\* the process whose requests are followed
Serving == 1

\* the finally clause: conn.close() and RULE_EXEC_LOCK.release(); the request
\* has answered out
ExecRulesFinally(r, out) ==
    /\ RULE_EXEC_LOCK' = FALSE
    /\ handler' = [handler EXCEPT ![r] = [ pc |-> "idle", rule_name |-> "none", out |-> out ]]

\* RULE_EXEC_LOCK.acquire(blocking=False): a lock that is held answers
\* "already in progress"
ExecRulesAcquire(r) ==
    /\ handler[r].pc = "idle"
    /\ IF RULE_EXEC_LOCK
       THEN /\ handler' = [handler EXCEPT ![r].out = "in_progress"]
            /\ UNCHANGED RULE_EXEC_LOCK
       ELSE /\ RULE_EXEC_LOCK' = TRUE
            /\ handler' = [handler EXCEPT ![r] = [ pc |-> "locked", rule_name |-> "none",
                                                   out |-> "none" ]]
    /\ UNCHANGED << RULE_EXEC_STATE, monotonic >>

\* the cooldown: within RULE_EXEC_COOLDOWN_SECONDS of last_run the lock is
\* released and the request answers "please wait"; else last_run is set
ExecRulesCooldown(r) ==
    /\ handler[r].pc = "locked"
    /\ LET now == monotonic
           remaining == RULE_EXEC_COOLDOWN_SECONDS - (now - RULE_EXEC_STATE.last_run)
       IN  IF remaining > 0
           THEN /\ RULE_EXEC_LOCK' = FALSE
                /\ handler' = [handler EXCEPT ![r] = [ pc |-> "idle", rule_name |-> "none",
                                                       out |-> "wait" ]]
                /\ UNCHANGED RULE_EXEC_STATE
           ELSE /\ RULE_EXEC_STATE' = [RULE_EXEC_STATE EXCEPT !.last_run = now]
                /\ handler' = [handler EXCEPT ![r].pc = "connect"]
                /\ UNCHANGED RULE_EXEC_LOCK
    /\ UNCHANGED monotonic

\* conn = get_db_connection(); cur = conn.cursor(), before the try: what
\* get_db_connection raises leaves the view with nothing released
ExecRulesConnect(r) ==
    /\ handler[r].pc = "connect"
    /\ IF dbUp
       THEN handler' = [handler EXCEPT ![r].pc = "select"]
       ELSE handler' = [handler EXCEPT ![r] = [ pc |-> "idle", rule_name |-> "none",
                                                out |-> "raised" ]]
    /\ UNCHANGED << RULE_EXEC_LOCK, RULE_EXEC_STATE, monotonic >>

\* the SELECT of the assigned rule and the look in RULE_FUNCTIONS
ExecRulesSelect(r) ==
    /\ handler[r].pc = "select"
    /\ IF ~dbUp
       THEN ExecRulesFinally(r, "raised")
       ELSE IF user_rule_assignment = "none"
       THEN ExecRulesFinally(r, "no_rule")
       ELSE /\ handler' = [handler EXCEPT ![r].rule_name = user_rule_assignment,
                                          ![r].pc = IF user_rule_assignment \in RULE_FUNCTIONS
                                                    THEN "body" ELSE "after"]
            /\ UNCHANGED RULE_EXEC_LOCK
    /\ UNCHANGED << RULE_EXEC_STATE, monotonic >>

\* func(): the rule body returns, or raises and the except clause flashes
ExecRulesBody(r, body_raises) ==
    /\ handler[r].pc = "body"
    /\ handler' = [handler EXCEPT ![r].pc = "after"]
    /\ UNCHANGED << RULE_EXEC_LOCK, RULE_EXEC_STATE, monotonic >>

\* the rest of the try, for a rule other than "Rule disable all", or with
\* the store down at the UPDATE; then the finally clause
ExecRulesReturn(r) ==
    /\ handler[r].pc = "after"
    /\ handler[r].rule_name # "Rule disable all" \/ ~dbUp
    /\ ExecRulesFinally(r, IF handler[r].rule_name = "Rule disable all"
                           THEN "raised" ELSE "done")
    /\ UNCHANGED << RULE_EXEC_STATE, monotonic >>

\* the rest of the try for "Rule disable all": the UPDATE of start_time,
\* the commit, load_schedules and notify_schedule_change; then the finally
\* clause
ExecRulesReload(r) ==
    /\ handler[r].pc = "after"
    /\ handler[r].rule_name = "Rule disable all" /\ dbUp
    /\ load_schedules(Serving, jobs[Serving], rules)
    /\ notify_schedule_change(Serving)
    /\ ExecRulesFinally(r, "done")
    /\ UNCHANGED << RULE_EXEC_STATE, monotonic >>

\* a second passes
MonotonicTick ==
    /\ monotonic < MaxMonotonic
    /\ monotonic' = monotonic + 1
    /\ UNCHANGED << RULE_EXEC_LOCK, RULE_EXEC_STATE, handler >>

\* the scheduler, its job bodies and the listeners stand still
ExecFrame ==
    UNCHANGED << lockVars, history, user_rule_assignment, chan, listenVars, due, notifyVars,
                 archiveVars, added, leaseVars, noteVars, mutexVars, raised, stoppedAt,
                 standby >>

\* requests to exec_rules in one process, the assignment of the user
\* changing and the store going down and coming back
NextExec ==
    \/ \E r \in Requests : ExecRulesAcquire(r) /\ ExecFrame
    \/ \E r \in Requests : ExecRulesCooldown(r) /\ ExecFrame
    \/ \E r \in Requests : ExecRulesConnect(r) /\ ExecFrame
    \/ \E r \in Requests : ExecRulesSelect(r) /\ ExecFrame
    \/ \E r \in Requests, body_raises \in BOOLEAN : ExecRulesBody(r, body_raises) /\ ExecFrame
    \/ \E r \in Requests : ExecRulesReturn(r) /\ ExecFrame
    \/ \E r \in Requests :
          /\ ExecRulesReload(r)
          /\ UNCHANGED << dbUp, rules, nextId, _IS_SCHEDULER_LEADER, _SCHEDULER_LEADER_CONN, thr,
                          faults, history, user_rule_assignment, listenVars, due, notifyVars,
                          archiveVars, added, leaseVars, noteVars, mutexVars, raised, stoppedAt,
                          standby >>
    \/ MonotonicTick /\ ExecFrame
    \/ \E v \in RuleNameInputs :
          /\ ScheduleRulesAssign(Serving, v)
          /\ UNCHANGED << history, listenVars, due, bodyVars >>
    \/ DbOutage /\ UNCHANGED << history, user_rule_assignment, notifies, lpc, _LISTENER_STOP,
                                crashes, due, bodyVars >>
    \/ DbRecover /\ Unobserved

SpecExec == Init /\ [][NextExec]_vars

\* the requests that are inside exec_rules, between acquire and release
InExecRules == { r \in Requests : handler[r].pc # "idle" }

\* C40: RULE_EXEC_LOCK is released on every path that acquired it, so it is
\* held only while a request is inside exec_rules and a request is answered
\* "already in progress" only while another one is; and at most one request
\* runs the rule body at a time
C40_LockReleasedOnEveryPath ==
    /\ [](RULE_EXEC_LOCK => InExecRules # {})
    /\ [][\A r \in Requests :
             (handler[r].out # "in_progress" /\ handler'[r].out = "in_progress")
               => InExecRules \ { r } # {}]_vars
    /\ [](Cardinality({ r \in Requests : handler[r].pc = "body" }) <= 1)

====
